---- MODULE Spec2Model ----
(***************************************************************************)
(* A model of flagx: the argument tokenizer (tidyOneArg / tidyArgs), the   *)
(* FlagSet (struct binding, strict and ContinueOnUndefined parsing,        *)
(* positional "non-flag" slots, NextArgs) and the Command tree             *)
(* (registration, scope gating, dispatch).                                 *)
(*                                                                         *)
(* A Go string is a sequence of one-character strings, so that the         *)
(* tokenizer's byte tests (s[0] == '-', name[i] == '=') are computed and   *)
(* not assumed.  A nil *string is the pair hasValue = FALSE.               *)
(***************************************************************************)
EXTENDS Integers, Sequences, FiniteSets, TLC

VARIABLES
    \* ---- FlagSet (src/flag.go:22-29) ----
    isContinueOnUndefined, \* FlagSet.isContinueOnUndefined
    structT,               \* the struct type bound by StructVars ("none" before)
    formal,                \* flag.FlagSet.formal: name -> [field, kind]
    nonFormal,             \* FlagSet.nonFormal: index -> [field, kind]
    vals,                  \* the bound struct's fields: field -> value
    actual,                \* flag.FlagSet.actual: names set by Parse
    nonActual,             \* FlagSet.nonActual: indexes set by Parse
    fargs,                 \* flag.FlagSet.args, what Args() returns
    terminated,            \* FlagSet.terminated
    parsed,                \* flag.FlagSet.parsed
    arguments,             \* the list handed to Parse
    perr,                  \* the error Parse returned ("none" for nil)
    nextArgs,              \* the result of the last NextArgs() call
    \* ---- tokenizer called on its own (tidyArgs, src/flag.go:513) ----
    tidyIn,                \* the list handed to the first tidyArgs call
    tidyOut,               \* the results of the calls made so far, in order
    \* ---- Command tree (src/command.go:17-34, src/unnamed/part_008:19-34) ----
    cmds,                  \* path -> Command record, for the commands created
    notFound,              \* App.notFound is set
    scopeMatcher,          \* App.scopeMatcherFunc is set (the equality matcher)
    validator,             \* App.validator is set (the rule of the bound struct)
    pending,               \* AddSubaction between its two calls: the new child
    actions,               \* the action-map App's actions: name -> handler
    middlewares,           \* the action-map App: how many middlewares Use added
    last,                  \* the last call made and what it returned
    \* ---- struct instances (src/action.go:82-88, src/command.go:272-310) ----
    heap,                  \* the struct instances allocated: address -> fields
    factories,             \* what AddFilter / SetAction keep of a struct handler
    execs,                 \* the Exec calls in flight: call -> its position
    \* ---- Command.lock (src/command.go:33) ----
    held,                  \* command -> who holds its lock: a writer, the readers
    threads,               \* goroutine -> the call it is in and where it stands
    \* ---- usage texts (src/command.go:426-460) ----
    execScopeUsageTexts,   \* "app" or command -> scope -> the text memoized
    \* ---- LookupArgs (src/global.go:59-77) ----
    look,                  \* the arguments and the name looked up, and the result
    \* ---- usage texts without scope (src/command.go:28, part_008:30) ----
    usageText              \* "app" and command -> the usageText field

fsVars == <<isContinueOnUndefined, structT, formal, nonFormal, vals, actual,
            nonActual, fargs, terminated, parsed, arguments, perr, nextArgs>>
tidyVars == <<tidyIn, tidyOut>>
cmdVars == <<cmds, notFound, scopeMatcher, validator, pending, actions, middlewares, last>>
isoVars == <<heap, factories, execs>>
lockVars == <<held, threads>>
restVars == <<isoVars, lockVars, execScopeUsageTexts, look, usageText>>
vars == <<fsVars, tidyVars, cmdVars, restVars>>

----------------------------------------------------------------------------
(* Bounds *)

\* the longest argument list handed to Parse or tidyArgs
MaxArgs == 4

----------------------------------------------------------------------------
(* Strings *)

Drop(s, n) == SubSeq(s, n + 1, Len(s))
Take(s, n) == SubSeq(s, 1, n)

DashDash == <<"-", "-">>
Empty == <<>>

\* The tokens argument lists are drawn from.
Tokens ==
    { <<"-", "s">>,                 \* -s    a flag without value
      <<"-", "v", "=", "0">>,       \* -v=0  name=value
      <<"-", "w">>,                 \* -w
      <<"-", "y">>,                 \* -y
      DashDash,                     \* --    the terminator
      <<"-">>,                      \* -     a bare dash
      <<"a">>,                      \* a     a plain word
      <<"0">>,                      \* 0     a plain word that is a boolean
      <<"-", "=", "s">>,            \* -=s   malformed
      <<"-", "-", "-", "s">> }      \* ---s  malformed

RECURSIVE SeqsUpTo(_, _)
SeqsUpTo(S, n) ==
    IF n = 0 THEN { <<>> }
    ELSE LET shorter == SeqsUpTo(S, n - 1)
         IN  shorter \cup { <<x>> \o s : x \in S, s \in { t \in shorter : Len(t) = n - 1 } }

ArgLists == SeqsUpTo(Tokens, MaxArgs)

----------------------------------------------------------------------------
(* The tokenizer: src/flag.go:513-606 *)

\* the 1-based index of the first '=' of name that is not its first byte, 0 if none
\* (the loop "for i := 1; i < len(name); i++" with 0-based i)
EqIndex(name) ==
    LET hits == { i \in 2..Len(name) : name[i] = "=" }
    IN  IF hits = {} THEN 0 ELSE CHOOSE i \in hits : \A j \in hits : i <= j

OneArg(lastArgs, isTerminated, name, hasValue, value, seen, err) ==
    [lastArgs |-> lastArgs, terminated |-> isTerminated, name |-> name,
     hasValue |-> hasValue, value |-> value, seen |-> seen, err |-> err]

\* a variant of tidyOneArg that takes the next token as the value of a flag
\* without '=' whatever that token is
tidyOneArgNextIsValue(args) ==
    IF Len(args) = 0 \/ Len(args[1]) < 2 \/ args[1][1] # "-"
    THEN OneArg(args, FALSE, Empty, FALSE, Empty, FALSE, "none")
    ELSE IF args[1] = DashDash
    THEN OneArg(Tail(args), TRUE, Empty, FALSE, Empty, FALSE, "none")
    ELSE
    LET name == IF args[1][2] = "-" THEN Drop(args[1], 2) ELSE Drop(args[1], 1)
        rest == Tail(args)
        eq == EqIndex(name)
    IN  IF Len(name) = 0 \/ name[1] = "-" \/ name[1] = "="
        THEN OneArg(args, FALSE, name, FALSE, Empty, FALSE, "bad flag syntax")
        ELSE IF eq # 0
        THEN OneArg(rest, FALSE, Take(name, eq - 1), TRUE, Drop(name, eq), TRUE, "none")
        ELSE IF Len(rest) = 0
        THEN OneArg(rest, FALSE, name, FALSE, Empty, TRUE, "none")
        ELSE OneArg(Tail(rest), FALSE, name, TRUE, rest[1], TRUE, "none")

\* a variant of tidyOneArg without the syntax check on the name
tidyOneArgAnyName(args) ==
    IF Len(args) = 0 \/ Len(args[1]) < 2 \/ args[1][1] # "-"
    THEN OneArg(args, FALSE, Empty, FALSE, Empty, FALSE, "none")
    ELSE IF args[1] = DashDash
    THEN OneArg(Tail(args), TRUE, Empty, FALSE, Empty, FALSE, "none")
    ELSE
    LET name == IF args[1][2] = "-" THEN Drop(args[1], 2) ELSE Drop(args[1], 1)
        rest == Tail(args)
        eq == EqIndex(name)
    IN  IF eq # 0
        THEN OneArg(rest, FALSE, Take(name, eq - 1), TRUE, Drop(name, eq), TRUE, "none")
        ELSE IF Len(rest) = 0 \/ (Len(rest[1]) > 0 /\ rest[1][1] = "-")
        THEN OneArg(rest, FALSE, name, FALSE, Empty, TRUE, "none")
        ELSE OneArg(Tail(rest), FALSE, name, TRUE, rest[1], TRUE, "none")

\* tidyOneArg tidies one flag. It reports whether a flag was seen.
tidyOneArg(args) ==
    IF Len(args) = 0
    THEN OneArg(args, FALSE, Empty, FALSE, Empty, FALSE, "none")
    ELSE
    LET s == args[1] IN
    IF Len(s) < 2 \/ s[1] # "-"
    THEN OneArg(args, FALSE, Empty, FALSE, Empty, FALSE, "none")
    ELSE
    IF s[2] = "-" /\ Len(s) = 2      \* "--" terminates the flags
    THEN OneArg(Tail(args), TRUE, Empty, FALSE, Empty, FALSE, "none")
    ELSE
    LET numMinuses == IF s[2] = "-" THEN 2 ELSE 1
        name == Drop(s, numMinuses)
    IN
    IF Len(name) = 0 \/ name[1] = "-" \/ name[1] = "="
    THEN OneArg(args, FALSE, name, FALSE, Empty, FALSE, "bad flag syntax")
    ELSE
    \* it's a flag.
    LET rest == Tail(args)
        eq == EqIndex(name)
    IN
    IF eq # 0                         \* does it have an argument?
    THEN OneArg(rest, FALSE, Take(name, eq - 1), TRUE, Drop(name, eq), TRUE, "none")
    ELSE
    IF Len(rest) = 0                  \* doesn't have an arg
    THEN OneArg(rest, FALSE, name, FALSE, Empty, TRUE, "none")
    ELSE
    IF Len(rest[1]) = 0 \/ rest[1][1] # "-"   \* value is the next arg
    THEN OneArg(Tail(rest), FALSE, name, TRUE, rest[1], TRUE, "none")
    ELSE OneArg(rest, FALSE, name, FALSE, Empty, TRUE, "none")

\* The filter closures handed to tidyArgs, as data:
\*   "all"    func(string) (want, next bool) { return true, true }   (TestTidyArgs)
\*   "lookup" want = the name is registered, next = true             (FlagSet.Parse)
\*   "first"  want = the name is the one looked for, next = !want    (LookupArgs)
FilterAll == [kind |-> "all", names |-> {}]
FilterLookup(names) == [kind |-> "lookup", names |-> names]
FilterFirst(name) == [kind |-> "first", names |-> {name}]

FilterWant(filter, name) == filter.kind = "all" \/ name \in filter.names
FilterNext(filter, name) == ~(filter.kind = "first" /\ name \in filter.names)

\* a variant of the closure that keeps name and value in one token, -name=value
tidyKVJoined(one) ==
    IF one.hasValue THEN << <<"-">> \o one.name \o <<"=">> \o one.value >>
    ELSE << <<"-">> \o one.name >>

\* the closure of tidyArgs: re-synthesizes a wanted flag as -name [value]
tidyKV(one) ==
    IF one.hasValue THEN << <<"-">> \o one.name, one.value >>
    ELSE << <<"-">> \o one.name >>

\* filterArgs' loop with tidyArgs' closure as its filter.
RECURSIVE filterArgs(_, _, _)
filterArgs(args, filter, tidiedArgs) ==
    LET one == tidyOneArg(args) IN
    IF ~one.seen
    THEN [tidiedArgs |-> tidiedArgs, lastArgs |-> one.lastArgs,
          terminated |-> one.terminated, err |-> one.err]
    ELSE
    LET tidied2 == IF FilterWant(filter, one.name)
                   THEN tidiedArgs \o tidyKV(one) ELSE tidiedArgs
    IN  IF ~FilterNext(filter, one.name)
        THEN [tidiedArgs |-> tidied2, lastArgs |-> one.lastArgs,
              terminated |-> one.terminated, err |-> one.err]
        ELSE filterArgs(one.lastArgs, filter, tidied2)

tidyArgs(args, filter) == filterArgs(args, filter, <<>>)

\* SplitArgs returns the command name and options (src/global.go:11-19).
SplitArgs(args) ==
    IF Len(args) > 0 /\ Len(args[1]) > 0 /\ args[1][1] # "-"
    THEN [cmd |-> args[1], args |-> Tail(args)]
    ELSE [cmd |-> Empty, args |-> args]

----------------------------------------------------------------------------
(* Values: the typed adapters a flag or a non-flag slot writes through *)

\* the texts strconv.ParseBool accepts (struct.go:120, and Set of a bool flag or slot)
BoolTrue == { <<"1">>, <<"t">>, <<"T">>, <<"t", "r", "u", "e">>,
              <<"T", "R", "U", "E">>, <<"T", "r", "u", "e">> }
BoolFalse == { <<"0">>, <<"f">>, <<"F">>, <<"f", "a", "l", "s", "e">>,
               <<"F", "A", "L", "S", "E">>, <<"F", "a", "l", "s", "e">> }

\* Value.Set(text): a string stores the text, a bool stores ParseBool(text) or fails
ValueSet(kind, text) ==
    IF kind = "bool"
    THEN IF text \in BoolTrue THEN [ok |-> TRUE, val |-> TRUE]
         ELSE IF text \in BoolFalse THEN [ok |-> TRUE, val |-> FALSE]
         ELSE [ok |-> FALSE, val |-> FALSE]
    ELSE [ok |-> TRUE, val |-> text]

----------------------------------------------------------------------------
(* The embedded standard FlagSet: flag.FlagSet.Parse, called at            *)
(* src/flag.go:285.  ErrorHandling is ContinueOnError: the error is        *)
(* returned.                                                               *)

StdResult(seen, err, v, act, args) ==
    [seen |-> seen, err |-> err, vals |-> v, actual |-> act, args |-> args]

\* flag.FlagSet.parseOne: parses one flag. It reports whether a flag was seen.
stdParseOne(fm, v, act, args) ==
    IF Len(args) = 0 THEN StdResult(FALSE, "none", v, act, args)
    ELSE
    LET s == args[1] IN
    IF Len(s) < 2 \/ s[1] # "-" THEN StdResult(FALSE, "none", v, act, args)
    ELSE
    IF s[2] = "-" /\ Len(s) = 2      \* "--" terminates the flags
    THEN StdResult(FALSE, "none", v, act, Tail(args))
    ELSE
    LET numMinuses == IF s[2] = "-" THEN 2 ELSE 1
        full == Drop(s, numMinuses)
    IN
    IF Len(full) = 0 \/ full[1] = "-" \/ full[1] = "="
    THEN StdResult(FALSE, "bad flag syntax", v, act, args)
    ELSE
    \* it's a flag. does it have an argument?
    LET rest == Tail(args)
        eq == EqIndex(full)
        hasValue == eq # 0
        value == IF hasValue THEN Drop(full, eq) ELSE Empty
        name == IF hasValue THEN Take(full, eq - 1) ELSE full
    IN
    IF name \notin DOMAIN fm
    THEN IF name = <<"h">> \/ name = <<"h", "e", "l", "p">>
         THEN StdResult(FALSE, "flag: help requested", v, act, rest)
         ELSE StdResult(FALSE, "flag provided but not defined", v, act, rest)
    ELSE
    LET flag == fm[name] IN
    IF flag.kind = "bool"             \* special case: doesn't need an arg
    THEN LET set == ValueSet("bool", IF hasValue THEN value ELSE <<"t", "r", "u", "e">>)
         IN  IF set.ok
             THEN StdResult(TRUE, "none", [v EXCEPT ![flag.field] = set.val],
                            act \cup {name}, rest)
             ELSE StdResult(FALSE, "invalid boolean value", v, act, rest)
    ELSE
    \* It must have a value, which might be the next argument.
    IF ~hasValue /\ Len(rest) = 0
    THEN StdResult(FALSE, "flag needs an argument", v, act, rest)
    ELSE
    LET value2 == IF hasValue THEN value ELSE rest[1]
        rest2 == IF hasValue THEN rest ELSE Tail(rest)
        set == ValueSet(flag.kind, value2)
    IN  IF set.ok
        THEN StdResult(TRUE, "none", [v EXCEPT ![flag.field] = set.val],
                       act \cup {name}, rest2)
        ELSE StdResult(FALSE, "invalid value", v, act, rest2)

\* flag.FlagSet.Parse: parseOne until no flag is seen
RECURSIVE stdParse(_, _, _, _)
stdParse(fm, v, act, args) ==
    LET one == stdParseOne(fm, v, act, args) IN
    IF one.seen THEN stdParse(fm, one.vals, one.actual, one.args)
    ELSE one

----------------------------------------------------------------------------
(* Struct binding: src/struct.go:25-135 *)

TrueText == <<"t", "r", "u", "e">>

Field(field, kind, names, def) ==
    [field |-> field, kind |-> kind, names |-> names, def |-> def]

\* The struct types handed to StructVars, fields in declaration order, each with
\* its parsed `flag` tag: the bind names and def=.
\*   ArgsT    Run string `s`; View bool `w,v; def=true`; Non0 string `?0`;
\*            Non1 bool `?1`; Non2 string `?2`     (after flag_test.go:60-70)
\*   SparseT  Run string `s`; Non0 string `?0`; Non3 string `?3`
\*   OneT     Run string `s`                        (after flag_test.go:15)
StructTypes ==
    [ ArgsT |-> << Field("Run", "string", << <<"s">> >>, Empty),
                   Field("View", "bool", << <<"w">>, <<"v">> >>, TrueText),
                   Field("Non0", "string", << <<"?", "0">> >>, Empty),
                   Field("Non1", "bool", << <<"?", "1">> >>, Empty),
                   Field("Non2", "string", << <<"?", "2">> >>, Empty) >>,
      SparseT |-> << Field("Run", "string", << <<"s">> >>, Empty),
                     Field("Non0", "string", << <<"?", "0">> >>, Empty),
                     Field("Non3", "string", << <<"?", "3">> >>, Empty) >>,
      OneT |-> << Field("Run", "string", << <<"s">> >>, Empty) >> ]

StructNames == DOMAIN StructTypes

DigitVal == [d \in {"0", "1", "2", "3", "4", "5", "6", "7", "8", "9"} |->
             CASE d = "0" -> 0 [] d = "1" -> 1 [] d = "2" -> 2 [] d = "3" -> 3
               [] d = "4" -> 4 [] d = "5" -> 5 [] d = "6" -> 6 [] d = "7" -> 7
               [] d = "8" -> 8 [] d = "9" -> 9]

\* getNonFlagIndex (src/flag.go:617-624): the index of a name "?<index>"
getNonFlagIndex(name) ==
    IF Len(name) = 0 \/ name[1] # "?"
    THEN [idx |-> -1, isNon |-> FALSE, err |-> FALSE]
    ELSE IF Len(name) = 2 /\ name[2] \in DOMAIN DigitVal
         THEN [idx |-> DigitVal[name[2]], isNon |-> TRUE, err |-> FALSE]
         ELSE [idx |-> 0, isNon |-> TRUE, err |-> TRUE]

\* the default a tag's def= gives (struct.go:105-135): the text for a string,
\* strconv.ParseBool(def) for a bool, false when def is empty
DefValue(kind, def) ==
    IF kind = "bool"
    THEN IF def = Empty THEN FALSE ELSE ValueSet("bool", def).val
    ELSE def

Extend(f, k, v) == [x \in DOMAIN f \cup {k} |-> IF x = k THEN v ELSE f[x]]

\* varReflectValue (struct.go:100-135): registers one field under each of its
\* names, every name bound to the field's own storage
RECURSIVE varReflectValue(_, _, _)
varReflectValue(fs, fld, i) ==
    IF i > Len(fld.names) \/ fs.err # "none" THEN fs
    ELSE
    LET name == fld.names[i]
        non == getNonFlagIndex(name)
        flag == [field |-> fld.field, kind |-> fld.kind]
    IN
    IF non.err THEN [fs EXCEPT !.err = "bad non-flag index"]
    ELSE IF non.isNon
    THEN IF non.idx \in DOMAIN fs.nonFormal
         THEN [fs EXCEPT !.err = "flag redefined"]
         ELSE varReflectValue([fs EXCEPT !.nonFormal = Extend(@, non.idx, flag)], fld, i + 1)
    ELSE IF name \in DOMAIN fs.formal
         THEN [fs EXCEPT !.err = "flag redefined"]
         ELSE varReflectValue([fs EXCEPT !.formal = Extend(@, name, flag)], fld, i + 1)

\* varFromStruct (struct.go:25-98): the fields in reverse declaration order
RECURSIVE varFromStruct(_, _, _)
varFromStruct(fs, T, i) ==
    IF i = 0 \/ fs.err # "none" THEN fs
    ELSE
    LET fld == T[i]
        bad == fld.kind = "bool" /\ fld.def # Empty /\ ~ValueSet("bool", fld.def).ok
        fs1 == [fs EXCEPT !.vals = Extend(@, fld.field, DefValue(fld.kind, fld.def))]
    IN  IF bad THEN [fs EXCEPT !.err = "cannot be converted to bool"]
        ELSE varFromStruct(varReflectValue(fs1, fld, 1), T, i - 1)

\* NewFlagSet (src/flag.go:64-82)
NewFlagSet(tolerant) ==
    [isContinueOnUndefined |-> tolerant, formal |-> <<>>, nonFormal |-> <<>>,
     vals |-> <<>>, actual |-> {}, nonActual |-> {}, fargs |-> <<>>,
     terminated |-> FALSE, err |-> "none"]

\* FlagSet.StructVars (src/flag.go:114-124)
StructVars(fs, T) == varFromStruct(fs, T, Len(T))

----------------------------------------------------------------------------
(* FlagSet.Parse and NextArgs: src/flag.go:89-109, 265-347 *)

\* a variant of parseOneNonFlag that counts the slots from 1
parseOneNonFlagFromOne(nf, v, index, value) ==
    IF value = DashDash
    THEN [seen |-> FALSE, err |-> "non-flag defined but not provided", vals |-> v]
    ELSE IF index + 1 \notin DOMAIN nf
    THEN [seen |-> FALSE, err |-> "none", vals |-> v]
    ELSE LET set == ValueSet(nf[index + 1].kind, value) IN
         IF ~set.ok
         THEN [seen |-> FALSE, err |-> "invalid value for non-flag", vals |-> v]
         ELSE [seen |-> TRUE, err |-> "none",
               vals |-> [v EXCEPT ![nf[index + 1].field] = set.val]]

\* parseOneNonFlag parses one non-flag. It reports whether a non-flag was seen.
parseOneNonFlag(nf, v, index, value) ==
    IF value = DashDash
    THEN [seen |-> FALSE, err |-> "non-flag defined but not provided", vals |-> v]
    ELSE IF index \notin DOMAIN nf
    THEN [seen |-> FALSE, err |-> "none", vals |-> v]
    ELSE LET set == ValueSet(nf[index].kind, value) IN
         IF ~set.ok
         THEN [seen |-> FALSE, err |-> "invalid value for non-flag", vals |-> v]
         ELSE [seen |-> TRUE, err |-> "none",
               vals |-> [v EXCEPT ![nf[index].field] = set.val]]

\* the loop "for k, v := range args" of Parse (flag.go:308-325), from index k
RECURSIVE parseNonFlags(_, _, _, _, _)
parseNonFlags(nf, v, nact, args, k) ==
    IF k >= Len(args) THEN [vals |-> v, nonActual |-> nact, err |-> "none"]
    ELSE
    LET one == parseOneNonFlag(nf, v, k, args[k + 1]) IN
    IF one.seen THEN parseNonFlags(nf, one.vals, nact \cup {k}, args, k + 1)
    ELSE [vals |-> v, nonActual |-> nact, err |-> one.err]   \* break, or return err

\* FlagSet.Parse (flag.go:269-326) on the FlagSet fs; the result is fs after the
\* call, with the returned error in err.
Parse(fs, args0) ==
    LET tolerant == fs.isContinueOnUndefined
        tidy == tidyArgs(args0, FilterLookup(DOMAIN fs.formal))
    IN
    IF tolerant /\ tidy.err # "none" THEN [fs EXCEPT !.err = tidy.err]
    ELSE
    LET args1 == IF tolerant
                 THEN tidy.tidiedArgs
                      \o (IF tidy.terminated THEN <<DashDash>> ELSE <<>>)
                      \o tidy.lastArgs
                 ELSE args0
        term1 == IF tolerant THEN tidy.terminated ELSE fs.terminated
        std == stdParse(fs.formal, fs.vals, fs.actual, args1)
        fs1 == [fs EXCEPT !.vals = std.vals, !.actual = std.actual,
                          !.fargs = std.args, !.terminated = term1, !.err = std.err]
    IN
    IF std.err # "none" THEN fs1
    ELSE IF term1 THEN fs1
    ELSE
    LET args == std.args
        i0 == Len(args1) - Len(args)
        i == IF i0 > 0 THEN i0 - 1 ELSE i0
    IN
    IF ~tolerant /\ Len(args) = 0 THEN fs1
    ELSE IF ~tolerant /\ args1[i + 1] = DashDash THEN [fs1 EXCEPT !.terminated = TRUE]
    ELSE
    LET non == parseNonFlags(fs.nonFormal, std.vals, fs.nonActual, args, 0)
    IN  [fs1 EXCEPT !.vals = non.vals, !.nonActual = non.nonActual, !.err = non.err]

\* a variant of NFormalNonFlag that counts the declared slots
NFormalNonFlagCount(nf) == Cardinality(DOMAIN nf)

\* NFormalNonFlag returns the number of non-flag required in the definition.
NFormalNonFlag(nf) ==
    IF DOMAIN nf = {} THEN 0
    ELSE (CHOOSE i \in DOMAIN nf : \A j \in DOMAIN nf : j <= i) + 1

\* NextArgs returns arguments of the next subcommand.
NextArgs(fs) ==
    LET n == NFormalNonFlag(fs.nonFormal) IN
    IF n < Len(fs.fargs) THEN Drop(fs.fargs, n) ELSE <<>>

----------------------------------------------------------------------------
(* The FlagSet as a state machine: NewFlagSet, StructVars, Parse, NextArgs *)

\* the FlagSet object held in the variables
TheFlagSet ==
    [isContinueOnUndefined |-> isContinueOnUndefined, formal |-> formal,
     nonFormal |-> nonFormal, vals |-> vals, actual |-> actual,
     nonActual |-> nonActual, fargs |-> fargs, terminated |-> terminated,
     err |-> perr]

SetFlagSet(fs) ==
    /\ isContinueOnUndefined' = fs.isContinueOnUndefined
    /\ formal' = fs.formal
    /\ nonFormal' = fs.nonFormal
    /\ vals' = fs.vals
    /\ actual' = fs.actual
    /\ nonActual' = fs.nonActual
    /\ fargs' = fs.fargs
    /\ terminated' = fs.terminated
    /\ perr' = fs.err

NotCalled == [called |-> FALSE, args |-> <<>>]

\* fs := NewFlagSet(name, ContinueOnError) or ContinueOnError|ContinueOnUndefined
InitFlagSet ==
    /\ isContinueOnUndefined \in BOOLEAN
    /\ structT = "none"
    /\ formal = <<>>
    /\ nonFormal = <<>>
    /\ vals = <<>>
    /\ actual = {}
    /\ nonActual = {}
    /\ fargs = <<>>
    /\ terminated = FALSE
    /\ parsed = FALSE
    /\ arguments = <<>>
    /\ perr = "none"
    /\ nextArgs = NotCalled

\* the last call recorded: what was called, on which command, with which name,
\* and what it returned or panicked with
Call(op, path, name, ret) == [op |-> op, path |-> path, name |-> name, ret |-> ret]
NoCall == Call("none", <<>>, <<>>, "ok")
Logged(log, call) == IF log THEN call ELSE NoCall

InitTidyIdle ==
    /\ tidyIn = <<>>
    /\ tidyOut = <<>>

InitCmdIdle ==
    /\ cmds = <<>>
    /\ notFound = FALSE
    /\ scopeMatcher = FALSE
    /\ validator = FALSE
    /\ pending = <<>>
    /\ actions = <<>>
    /\ middlewares = 0
    /\ last = NoCall

InitIsoIdle ==
    /\ heap = <<>>
    /\ factories = <<>>
    /\ execs = <<>>

InitLockIdle ==
    /\ held = <<>>
    /\ threads = <<>>

InitUsageIdle == execScopeUsageTexts = [app |-> <<>>, cmd |-> <<>>]

InitLookIdle == look = [called |-> FALSE]

InitTextIdle == usageText = <<>>

InitRestIdle == InitIsoIdle /\ InitLockIdle /\ InitUsageIdle /\ InitLookIdle /\ InitTextIdle

\* fs.StructVars(&args), once, before Parse
DoStructVars(T) ==
    /\ structT = "none"
    /\ ~parsed
    /\ structT' = T
    /\ SetFlagSet(StructVars(TheFlagSet, StructTypes[T]))
    /\ UNCHANGED <<parsed, arguments, nextArgs>>

\* err := fs.Parse(args), once per FlagSet
DoParse(args) ==
    /\ ~parsed
    /\ perr = "none"
    /\ parsed' = TRUE
    /\ arguments' = args
    /\ SetFlagSet(Parse(TheFlagSet, args))
    /\ UNCHANGED <<structT, nextArgs>>

\* fs.NextArgs() after Parse
DoNextArgs ==
    /\ parsed
    /\ ~nextArgs.called
    /\ nextArgs' = [called |-> TRUE, args |-> NextArgs(TheFlagSet)]
    /\ UNCHANGED <<isContinueOnUndefined, structT, formal, nonFormal, vals, actual,
                   nonActual, fargs, terminated, parsed, arguments, perr>>

NextFlagSet ==
    \/ ~parsed /\ \E T \in StructNames : DoStructVars(T)
    \/ ~parsed /\ \E args \in ArgLists : DoParse(args)
    \/ DoNextArgs

Init == InitFlagSet /\ InitTidyIdle /\ InitCmdIdle /\ InitRestIdle

Next == NextFlagSet /\ UNCHANGED <<tidyVars, cmdVars, restVars>>

Spec == Init /\ [][Next]_vars

----------------------------------------------------------------------------
(* Parse of argument lists that ask for help: -h and -help, which no struct *)
(* registers (src/flag.go:265-288)                                          *)

HelpFlags == { <<"-", "h">>, <<"-", "h", "e", "l", "p">> }

\* -h and -help among a string flag, a boolean flag, a plain word and the terminator
HelpTokens == HelpFlags \cup { <<"-", "s">>, <<"-", "w">>, <<"a">>, DashDash }

HelpArgLists == SeqsUpTo(HelpTokens, MaxArgs)

NextHelp ==
    \/ ~parsed /\ \E T \in StructNames : DoStructVars(T)
    \/ ~parsed /\ \E args \in HelpArgLists : DoParse(args)
    \/ DoNextArgs

HelpNext == NextHelp /\ UNCHANGED <<tidyVars, cmdVars, restVars>>

SpecHelp == Init /\ [][HelpNext]_vars

----------------------------------------------------------------------------
(* tidyArgs called on its own, and again on what it left (TestTidyArgs,    *)
(* src/flag_test.go:122-129)                                               *)

InitTidy ==
    /\ tidyIn \in ArgLists
    /\ tidyOut = <<>>

\* tidiedArgs, args, _, err := tidyArgs(args, accept-everything)
DoTidyArgs ==
    /\ Len(tidyOut) < 2
    /\ Len(tidyOut) > 0 => tidyOut[Len(tidyOut)].err = "none"
    /\ LET args == IF tidyOut = <<>> THEN tidyIn ELSE tidyOut[Len(tidyOut)].lastArgs
       IN  tidyOut' = Append(tidyOut, tidyArgs(args, FilterAll))
    /\ UNCHANGED tidyIn

InitFlagSetIdle == InitFlagSet /\ isContinueOnUndefined = FALSE

TidyInit == InitTidy /\ InitFlagSetIdle /\ InitCmdIdle /\ InitRestIdle

TidyNext == DoTidyArgs /\ UNCHANGED <<fsVars, cmdVars, restVars>>

SpecTidy == TidyInit /\ [][TidyNext]_vars

----------------------------------------------------------------------------
(* The Command tree: src/command.go, src/unnamed/part_008 *)

\* the most commands a tree holds, the root included
MaxCmds == 3
\* the most filters a tree holds
MaxFilters == 1
\* the most filters a tree handed to Exec holds, and its deepest command
MaxChain == 2
MaxDepth == 1
\* the longest argument list handed to Exec
MaxExecArgs == 2

\* Status codes (src/unnamed/part_008:54-61)
StatusBadArgs == 1
StatusNotFound == 2
StatusParseFailed == 3
StatusValidateFailed == 4
StatusMismatchScope == 5

\* the command names used, and the scopes
Names == { <<"a">>, <<"b">> }
Scopes == {0, 1}
\* the kinds of Action and Filter: a function, or a struct bound through a FlagSet
Kinds == {"func", "struct"}
\* a Filter is one of these, or "stop": a FilterFunc that returns without calling
\* next
FilterKinds == Kinds \cup {"stop"}
\* the struct type of every struct filter and struct action
OptionsT == StructTypes.OneT

\* the command name of the trees handed to Exec; the tokens handed to Exec: that
\* name, the flag -s of the struct, and s=a, a value written as a plain word
ExecNames == { <<"a">> }
PlainWord == <<"s", "=", "a">>
ExecTokens == ExecNames \cup { <<"-", "s">>, PlainWord }
ExecArgLists == SeqsUpTo(ExecTokens, MaxExecArgs)

Root == <<>>

\* newCommand (command.go:36-44); a command is kept under its path from the root,
\* subcommands holds the keys of the map
newCommand == [action |-> "none", scope |-> 0, filters |-> <<>>, subcommands |-> {}]

Ret(cs, ret) == [cmds |-> cs, ret |-> ret]

\* a variant of AddSubcommand that replaces a subcommand of the same name
AddSubcommandOver(cs, p, cmdName, filters) ==
    IF cmdName = Empty THEN Ret(cs, "panic: command name is empty")
    ELSE IF cs[p].action # "none"
    THEN Ret(cs, "panic: action has been set, no subcommand can be set")
    ELSE Ret([q \in DOMAIN cs \cup {Append(p, cmdName)} |->
                 IF q = Append(p, cmdName) THEN [newCommand EXCEPT !.filters = filters]
                 ELSE IF q = p THEN [cs[p] EXCEPT !.subcommands = @ \cup {cmdName}]
                 ELSE cs[q]], "ok")

\* Command.AddSubcommand on the command at path p (command.go:73-90)
AddSubcommand(cs, p, cmdName, filters) ==
    IF cmdName = Empty THEN Ret(cs, "panic: command name is empty")
    ELSE IF cs[p].action # "none"
    THEN Ret(cs, "panic: action has been set, no subcommand can be set")
    ELSE IF cmdName \in cs[p].subcommands
    THEN Ret(cs, "panic: action named already exists")
    ELSE LET subCmd == [newCommand EXCEPT !.filters = filters]
         IN  Ret(Extend([cs EXCEPT ![p].subcommands = @ \cup {cmdName}],
                        Append(p, cmdName), subCmd), "ok")

\* Command.AddFilter (command.go:96-126)
AddFilter(cs, p, filters) == Ret([cs EXCEPT ![p].filters = @ \o filters], "ok")

\* a variant of SetAction that does not look at the subcommands
SetActionAnywhere(cs, p, action, scope) ==
    IF cs[p].action # "none" THEN Ret(cs, "panic: an action have been set")
    ELSE Ret([cs EXCEPT ![p].action = action, ![p].scope = scope], "ok")

\* Command.SetAction (command.go:132-172); scope 0 is also "no scope given"
SetAction(cs, p, action, scope) ==
    IF cs[p].subcommands # {}
    THEN Ret(cs, "panic: some subcommands have been set, no action can be set")
    ELSE IF cs[p].action # "none" THEN Ret(cs, "panic: an action have been set")
    ELSE Ret([cs EXCEPT ![p].action = action, ![p].scope = scope], "ok")

\* the action-map App's regAction (app.go:1386-1403): acts maps a name to its handler
regAction(acts, cmdName, handler) ==
    IF cmdName \in DOMAIN acts
    THEN [actions |-> acts, ret |-> "error: an action named already exists"]
    ELSE [actions |-> Extend(acts, cmdName, handler), ret |-> "nil"]

\* App.AddAction (app.go:1379-1384)
AddAction(acts, cmdName, handler) ==
    IF cmdName = Empty
    THEN [actions |-> acts, ret |-> "error: action name can not be empty"]
    ELSE regAction(acts, cmdName, handler)

----------------------------------------------------------------------------
(* Command.Exec: command.go:204-311 *)

\* a Status: its code, the error it was made from, and the command path its
\* text names (none but for StatusNotFound)
NoStatus == [code |-> 0, cause |-> "nil", cmdPath |-> <<>>]

\* a variant of CheckStatus that never panics
CheckStatusNever(err, code) == [thrown |-> FALSE, status |-> NoStatus]

\* CheckStatus: if err != nil, create a status with the code and err as cause, and
\* panic (app.go:167-172)
CheckStatus(err, code) ==
    IF err # "nil" /\ err # "none"
    THEN [thrown |-> TRUE, status |-> [code |-> code, cause |-> err, cmdPath |-> <<>>]]
    ELSE [thrown |-> FALSE, status |-> NoStatus]

\* the matcher of TestScope: the scopes must be equal (part_004:231-289)
scopeMatcherFunc(cmdScope, execScope) ==
    IF cmdScope = execScope THEN "nil" ELSE "scopes are not equal"

\* the validator handed to SetValidator: the rule of the bound struct, Run must be
\* given (after vd:"@:$!=0; msg:'empty ID'" and vd.Validate, part_004:21-23, 174-177)
validatorFunc(obj) == IF obj["Run"] = Empty THEN "empty Run" ELSE "nil"

\* the cmdName of the App's root command
AppCmdName == <<"t">>

\* the obj of a function, which has no struct
NoObj == [nil |-> TRUE]

\* a filter or an action as Exec holds it, and what calling it leaves in the trace:
\* ev is what was called, at the command it is registered on, idx its place among
\* that command's filters, kind what was registered, obj the fields of the struct
\* instance bound for this Exec
Event(ev, at, idx, kind, obj) ==
    [ev |-> ev, at |-> at, idx |-> idx, kind |-> kind, obj |-> obj]

\* a FlagSet of the command's own error handling bound to a fresh copy of the
\* struct, and parsed (command.go:272-275, 302-305); tabulated over the lists a
\* command can be handed, which Exec passes down as bound
\* a struct with the flag -s and the positional slot ?0
SlotT == << Field("Run", "string", << <<"s">> >>, Empty),
           Field("Non0", "string", << <<"?", "0">> >>, Empty) >>

\* the struct kinds of a Filter or Action and their types
StructKinds == {"struct", "slot"}
KindType == [struct |-> OptionsT, slot |-> SlotT]

BindAndParse ==
    [k \in StructKinds |->
        [cmdline \in ExecArgLists |-> Parse(StructVars(NewFlagSet(TRUE), KindType[k]), cmdline)]]

\* a variant of Validated that never calls the validator
ValidatedNever(app, flagSet) == "nil"

\* the error the validator leaves in err after a Parse without error
Validated(app, flagSet) ==
    IF app.validator THEN validatorFunc(flagSet.vals) ELSE "nil"

\* a variant of newFilters in which a filter parses what the filters before it left
RECURSIVE newFiltersNarrowed(_, _, _, _, _, _, _)
newFiltersNarrowed(fl, i, cmdline, p, app, bound, acc) ==
    IF i > Len(fl)
    THEN [thrown |-> FALSE, status |-> NoStatus, args |-> acc.args, r |-> acc.r,
          trace |-> acc.trace]
    ELSE IF fl[i] \notin StructKinds
    THEN newFiltersNarrowed(fl, i + 1, cmdline, p, app, bound,
                    [acc EXCEPT !.r = Append(@, Event("Filter", p, i, fl[i], NoObj))])
    ELSE
    LET flagSet == bound[fl[i]][acc.args]
        chk == CheckStatus(flagSet.err, StatusParseFailed)
        chk2 == CheckStatus(Validated(app, flagSet), StatusValidateFailed)
        trace2 == Append(acc.trace, Event("bind filter", p, i, fl[i], NoObj))
        nargs == NextArgs(flagSet)
    IN  IF chk.thrown
        THEN [thrown |-> TRUE, status |-> chk.status, args |-> acc.args, r |-> acc.r,
              trace |-> trace2]
        ELSE IF chk2.thrown
        THEN [thrown |-> TRUE, status |-> chk2.status, args |-> acc.args, r |-> acc.r,
              trace |-> trace2]
        ELSE newFiltersNarrowed(fl, i + 1, cmdline, p, app, bound,
                        [args |-> IF Len(acc.args) > Len(nargs) THEN nargs ELSE acc.args,
                         r |-> Append(acc.r, Event("Filter", p, i, fl[i], flagSet.vals)),
                         trace |-> trace2])

\* newFilters' loop from filter i on (command.go:265-289); acc holds r, the
\* shortest NextArgs so far, and the trace
RECURSIVE newFilters(_, _, _, _, _, _, _)
newFilters(fl, i, cmdline, p, app, bound, acc) ==
    IF i > Len(fl)
    THEN [thrown |-> FALSE, status |-> NoStatus, args |-> acc.args, r |-> acc.r,
          trace |-> acc.trace]
    ELSE IF fl[i] \notin StructKinds
    THEN newFilters(fl, i + 1, cmdline, p, app, bound,
                    [acc EXCEPT !.r = Append(@, Event("Filter", p, i, fl[i], NoObj))])
    ELSE
    LET flagSet == bound[fl[i]][cmdline]
        chk == CheckStatus(flagSet.err, StatusParseFailed)
        chk2 == CheckStatus(Validated(app, flagSet), StatusValidateFailed)
        trace2 == Append(acc.trace, Event("bind filter", p, i, fl[i], NoObj))
        nargs == NextArgs(flagSet)
    IN  IF chk.thrown
        THEN [thrown |-> TRUE, status |-> chk.status, args |-> acc.args, r |-> acc.r,
              trace |-> trace2]
        ELSE IF chk2.thrown
        THEN [thrown |-> TRUE, status |-> chk2.status, args |-> acc.args, r |-> acc.r,
              trace |-> trace2]
        ELSE newFilters(fl, i + 1, cmdline, p, app, bound,
                        [args |-> IF Len(acc.args) > Len(nargs) THEN nargs ELSE acc.args,
                         r |-> Append(acc.r, Event("Filter", p, i, fl[i], flagSet.vals)),
                         trace |-> trace2])

NoAction == Event("none", <<>>, 0, "none", NoObj)

\* a variant of newAction that finds no action while arguments are left over
newActionNoLeftover(c, cmdline, p, trace, app, bound) ==
    IF c.action = "none" \/ (c.action = "struct" /\ NextArgs(bound[c.action][cmdline]) # <<>>)
    THEN [thrown |-> FALSE, status |-> NoStatus, args |-> cmdline, found |-> FALSE,
          action |-> NoAction, trace |-> trace]
    ELSE IF c.action = "func"
    THEN [thrown |-> FALSE, status |-> NoStatus, args |-> SplitArgs(cmdline).args,
          found |-> TRUE, action |-> Event("Execute", p, 0, "func", NoObj),
          trace |-> trace]
    ELSE [thrown |-> FALSE, status |-> NoStatus, args |-> <<>>, found |-> TRUE,
          action |-> Event("Execute", p, 0, "struct", bound[c.action][cmdline].vals),
          trace |-> Append(trace, Event("bind action", p, 0, "struct", NoObj))]

\* newAction (command.go:291-311)
newAction(c, cmdline, p, trace, app, bound) ==
    IF c.action = "none"
    THEN [thrown |-> FALSE, status |-> NoStatus, args |-> cmdline, found |-> FALSE,
          action |-> NoAction, trace |-> trace]
    ELSE IF c.action = "func"
    THEN [thrown |-> FALSE, status |-> NoStatus, args |-> SplitArgs(cmdline).args,
          found |-> TRUE, action |-> Event("Execute", p, 0, "func", NoObj),
          trace |-> trace]
    ELSE
    LET flagSet == bound[c.action][cmdline]
        chk == CheckStatus(flagSet.err, StatusParseFailed)
        chk2 == CheckStatus(Validated(app, flagSet), StatusValidateFailed)
        trace2 == Append(trace, Event("bind action", p, 0, "struct", NoObj))
    IN  IF chk.thrown
        THEN [thrown |-> TRUE, status |-> chk.status, args |-> cmdline, found |-> FALSE,
              action |-> NoAction, trace |-> trace2]
        ELSE IF chk2.thrown
        THEN [thrown |-> TRUE, status |-> chk2.status, args |-> cmdline,
              found |-> FALSE, action |-> NoAction, trace |-> trace2]
        ELSE [thrown |-> FALSE, status |-> NoStatus, args |-> NextArgs(flagSet),
              found |-> TRUE, action |-> Event("Execute", p, 0, "struct", flagSet.vals),
              trace |-> trace2]

\* what findFiltersAndAction returns (filters, action, cmdPath, cmd, found), or the
\* Status it panicked with
Found(p, cmdPath, filters, action, found, status, thrown, trace) ==
    [at |-> p, cmdPath |-> cmdPath, filters |-> filters, action |-> action,
     found |-> found, status |-> status, thrown |-> thrown, trace |-> trace]

Thrown(p, cmdPath, status, trace) ==
    Found(p, cmdPath, <<>>, NoAction, FALSE, status, TRUE, trace)

\* findFiltersAndAction on the command at p (command.go:232-263); app holds the
\* App's notFound, validator and scopeMatcherFunc
RECURSIVE findFiltersAndAction(_, _, _, _, _, _, _, _)
findFiltersAndAction(cs, app, p, cmdPath, cmdline, execScope, trace, bound) ==
    LET c == cs[p]
        chk == IF c.action # "none" /\ app.scopeMatcher
               THEN CheckStatus(scopeMatcherFunc(c.scope, execScope), StatusMismatchScope)
               ELSE [thrown |-> FALSE, status |-> NoStatus]
    IN
    IF chk.thrown THEN Thrown(p, cmdPath, chk.status, trace)
    ELSE
    LET f == newFilters(c.filters, 1, cmdline, p, app, bound,
                        [args |-> cmdline, r |-> <<>>, trace |-> trace])
    IN
    IF f.thrown THEN Thrown(p, cmdPath, f.status, f.trace)
    ELSE
    LET a == newAction(c, f.args, p, f.trace, app, bound) IN
    IF a.thrown THEN Thrown(p, cmdPath, a.status, a.trace)
    ELSE IF a.found
    THEN Found(p, cmdPath, f.r, a.action, TRUE, NoStatus, FALSE, a.trace)
    ELSE
    LET split == SplitArgs(a.args)
        subCmdName == split.cmd
        cmdPath2 == IF subCmdName # Empty THEN Append(cmdPath, subCmdName) ELSE cmdPath
    IN
    IF subCmdName \notin c.subcommands
    THEN IF app.notFound
         THEN Found(p, cmdPath2, <<>>, Event("notFound", p, 0, "func", NoObj), FALSE,
                    NoStatus, FALSE, a.trace)
         ELSE Thrown(p, cmdPath2,
                     [code |-> StatusNotFound, cause |-> "not found command action",
                      cmdPath |-> cmdPath2],
                     a.trace)
    ELSE
    LET sub == findFiltersAndAction(cs, app, Append(p, subCmdName), cmdPath2,
                                    split.args, execScope, a.trace, bound)
    IN  IF sub.found
        THEN [sub EXCEPT !.filters = f.r \o @]
        ELSE sub

\* a variant of route's loop that wraps the first filter innermost
RECURSIVE wrapInnerFirst(_, _, _)
wrapInnerFirst(filters, i, actionFunc) ==
    IF i < 1 THEN actionFunc
    ELSE wrapInnerFirst(filters, i - 1, <<filters[Len(filters) + 1 - i]>> \o actionFunc)

\* route's loop (command.go:220-227), from the last filter i down to the first:
\* actionFunc becomes the call of filters[i] with the former actionFunc as its
\* next.  An ActionFunc is kept as the handlers it calls, each the next of the
\* one before it.
RECURSIVE wrap(_, _, _)
wrap(filters, i, actionFunc) ==
    IF i < 1 THEN actionFunc
    ELSE wrap(filters, i - 1, <<filters[i]>> \o actionFunc)

\* the Context route returns with the handle (command.go:229, action.go:41-48)
Context(cmdline, cmdPath, cmd, execScope) ==
    [args |-> cmdline, cmdPath |-> cmdPath, cmd |-> cmd, execScope |-> execScope]

\* Context.CmdPath (action.go:100-103)
CmdPath(ctx) == ctx.cmdPath

\* Context.CmdScope (action.go:110-113)
CmdScope(cs, ctx) == cs[ctx.cmd].scope

\* Context.ExecScope (action.go:115-118)
ExecScope(cs, ctx) == cs[ctx.cmd].scope

\* a variant of route whose handle calls nothing when no action was found
routeFoundOnly(r) ==
    IF r.found THEN wrap(r.filters, Len(r.filters), <<r.action>>)
    ELSE <<>>

\* route (command.go:215-230): the handle built from what findFiltersAndAction
\* returned
route(r) ==
    IF r.found THEN wrap(r.filters, Len(r.filters), <<r.action>>)
    ELSE <<r.action>>

\* the call of an ActionFunc from its handler i on: a filter of kind "stop"
\* returns without calling next, every other filter calls next once and returns
\* after it (part_004:149-172); the last handler is the action or notFound
RECURSIVE call(_, _)
call(actionFunc, i) ==
    IF i > Len(actionFunc) THEN <<>>
    ELSE IF actionFunc[i].ev # "Filter" THEN <<actionFunc[i]>>
    ELSE <<actionFunc[i]>>
         \o (IF actionFunc[i].kind = "stop" THEN <<>> ELSE call(actionFunc, i + 1))
         \o <<[actionFunc[i] EXCEPT !.ev = "Filter end"]>>

\* Exec's two calls, and the Status a panic of route is caught into by
\* status.Catch (command.go:204-213)
handle(r, cmdline, execScope) ==
    IF r.thrown
    THEN [status |-> r.status, trace |-> r.trace, at |-> r.at,
          ctx |-> Context(cmdline, r.cmdPath, r.at, execScope)]
    ELSE [status |-> NoStatus, trace |-> r.trace \o call(route(r), 1), at |-> r.at,
          ctx |-> Context(cmdline, r.cmdPath, r.at, execScope)]

\* the cmdName of the command at p
CmdNameOf(p) == IF p = <<>> THEN AppCmdName ELSE p[Len(p)]

\* Command.Exec on the command at p (command.go:204-213)
Exec(cs, app, p, cmdline, execScope) ==
    handle(findFiltersAndAction(cs, app, p, <<CmdNameOf(p)>>, cmdline, execScope, <<>>,
                                BindAndParse),
           cmdline, execScope)

----------------------------------------------------------------------------
(* The tree as a state machine: the registration calls and Exec.  A call   *)
(* that changes a command holds that command's lock from its checks to its *)
(* writes, so each is one step.                                            *)

TheApp == [notFound |-> notFound, scopeMatcher |-> scopeMatcher, validator |-> validator]

\* NewApp() of the command-tree App, or of the action-map App
InitCmd ==
    /\ cmds \in { (Root :> newCommand), <<>> }
    /\ notFound = FALSE
    /\ scopeMatcher = FALSE
    /\ validator = FALSE
    /\ pending = <<>>
    /\ actions = <<>>
    /\ middlewares = 0
    /\ last = NoCall

IsTree == Root \in DOMAIN cmds

\* what a registration call panics with
Panics == { "panic: command name is empty",
            "panic: action has been set, no subcommand can be set",
            "panic: action named already exists",
            "panic: some subcommands have been set, no action can be set",
            "panic: an action have been set" }

\* the program runs on: no call has panicked (the package recovers no panic of a
\* registration call, it ends the program), and no Exec has been recorded (Exec
\* holds the read lock only and leaves the tree as it is; a behaviour ends with
\* the Exec it records)
Running == last.op # "Exec" /\ last.ret \notin Panics

RECURSIVE NFilters(_, _)
NFilters(cs, paths) ==
    IF paths = {} THEN 0
    ELSE LET p == CHOOSE q \in paths : TRUE
         IN  Len(cs[p].filters) + NFilters(cs, paths \ {p})

\* a call that adds a command or a filter stays within MaxCmds and MaxFilters
\* where the calls are recorded, within MaxDepth and MaxChain where they set up an
\* Exec
Within(r, log) ==
    IF log
    THEN /\ Cardinality(DOMAIN r.cmds) <= MaxCmds
         /\ NFilters(r.cmds, DOMAIN r.cmds) <= MaxFilters
    ELSE /\ \A p \in DOMAIN r.cmds : Len(p) <= MaxDepth
         /\ NFilters(r.cmds, DOMAIN r.cmds) <= MaxChain

\* c.AddSubcommand(cmdName, "", filters...)
DoAddSubcommand(p, cmdName, filters, log) ==
    LET r == AddSubcommand(cmds, p, cmdName, filters) IN
    /\ Within(r, log)
    /\ cmds' = r.cmds
    /\ last' = Logged(log, Call("AddSubcommand", p, cmdName, r.ret))
    /\ UNCHANGED <<notFound, scopeMatcher, validator, pending, actions, middlewares>>

\* c.AddSubaction(cmdName, "", action, scope): its AddSubcommand call
DoAddSubaction(p, cmdName, action, scope) ==
    LET r == AddSubcommand(cmds, p, cmdName, <<>>) IN
    /\ pending = <<>>
    /\ Within(r, TRUE)
    /\ cmds' = r.cmds
    /\ pending' = IF r.ret = "ok"
                  THEN << [path |-> Append(p, cmdName), action |-> action, scope |-> scope] >>
                  ELSE <<>>
    /\ last' = Call("AddSubaction", p, cmdName, r.ret)
    /\ UNCHANGED <<notFound, scopeMatcher, validator, actions, middlewares>>

\* c.AddSubaction: the SetAction call on the command AddSubcommand returned
DoAddSubactionSetAction ==
    /\ pending # <<>>
    /\ LET r == SetAction(cmds, pending[1].path, pending[1].action, pending[1].scope) IN
       /\ cmds' = r.cmds
       /\ last' = Call("SetAction", pending[1].path, Empty, r.ret)
    /\ pending' = <<>>
    /\ UNCHANGED <<notFound, scopeMatcher, validator, actions, middlewares>>

\* c.AddFilter(filter)
DoAddFilter(p, filter, log) ==
    LET r == AddFilter(cmds, p, <<filter>>) IN
    /\ Within(r, log)
    /\ cmds' = r.cmds
    /\ last' = Logged(log, Call("AddFilter", p, Empty, r.ret))
    /\ UNCHANGED <<notFound, scopeMatcher, validator, pending, actions, middlewares>>

\* c.SetAction(action, scope)
DoSetAction(p, action, scope, log) ==
    LET r == SetAction(cmds, p, action, scope) IN
    /\ cmds' = r.cmds
    /\ last' = Logged(log, Call("SetAction", p, Empty, r.ret))
    /\ UNCHANGED <<notFound, scopeMatcher, validator, pending, actions, middlewares>>

\* app.SetNotFound(fn) (part_008:256-261)
DoSetNotFound ==
    /\ ~notFound
    /\ notFound' = TRUE
    /\ last' = NoCall
    /\ UNCHANGED <<cmds, scopeMatcher, validator, pending, actions, middlewares>>

\* app.SetScopeMatcher(fn) (part_008:280-285)
DoSetScopeMatcher ==
    /\ ~scopeMatcher
    /\ scopeMatcher' = TRUE
    /\ last' = NoCall
    /\ UNCHANGED <<cmds, notFound, validator, pending, actions, middlewares>>

\* app.SetValidator(fn) (part_008:263-269)
DoSetValidator ==
    /\ ~validator
    /\ validator' = TRUE
    /\ last' = NoCall
    /\ UNCHANGED <<cmds, notFound, scopeMatcher, pending, actions, middlewares>>

\* stat := app.Exec(ctx, cmdline, execScope)
DoExec(cmdline, execScope) ==
    /\ last' = [op |-> "Exec", args |-> cmdline, execScope |-> execScope,
                ret |-> Exec(cmds, TheApp, Root, cmdline, execScope)]
    /\ UNCHANGED <<cmds, notFound, scopeMatcher, validator, pending, actions, middlewares>>

\* err := app.AddAction(cmdName, "", handler) on the action-map App
DoAddAction(cmdName, handler) ==
    LET r == AddAction(actions, cmdName, handler) IN
    /\ actions' = r.actions
    /\ last' = Call("AddAction", Root, cmdName, r.ret)
    /\ UNCHANGED <<cmds, notFound, scopeMatcher, validator, pending, middlewares>>

FilterLists == { <<>> } \cup { <<k>> : k \in Kinds }

\* the registration calls, each recorded in last
NextCmd ==
    \/ IsTree /\ Running /\ \E p \in DOMAIN cmds, n \in Names \cup {Empty}, fl \in FilterLists :
                     DoAddSubcommand(p, n, fl, TRUE)
    \/ IsTree /\ Running /\ \E p \in DOMAIN cmds, n \in Names \cup {Empty}, a \in Kinds, s \in Scopes :
                     DoAddSubaction(p, n, a, s)
    \/ IsTree /\ Running /\ DoAddSubactionSetAction
    \/ IsTree /\ Running /\ \E p \in DOMAIN cmds, k \in Kinds : DoAddFilter(p, k, TRUE)
    \/ IsTree /\ Running /\ \E p \in DOMAIN cmds, a \in Kinds, s \in Scopes : DoSetAction(p, a, s, TRUE)
    \/ ~IsTree /\ \E n \in Names \cup {Empty}, h \in Kinds : DoAddAction(n, h)

CmdInit == InitCmd /\ InitFlagSetIdle /\ InitTidyIdle /\ InitRestIdle

CmdNext == NextCmd /\ UNCHANGED <<fsVars, tidyVars, restVars>>

SpecCmd == CmdInit /\ [][CmdNext]_vars

\* the command-tree App: NewApp(), then its setup and Exec, of which last records
\* the Exec calls
InitExec == InitCmd /\ IsTree

NextExec ==
    \/ Running /\ \E p \in DOMAIN cmds, n \in ExecNames, fl \in FilterLists :
           DoAddSubcommand(p, n, fl, FALSE)
    \/ Running /\ \E p \in DOMAIN cmds, k \in FilterKinds : DoAddFilter(p, k, FALSE)
    \/ Running /\ \E p \in DOMAIN cmds, a \in Kinds, s \in Scopes : DoSetAction(p, a, s, FALSE)
    \/ Running /\ DoSetNotFound
    \/ Running /\ DoSetScopeMatcher
    \/ Running /\ DoSetValidator
    \/ Running /\ \E args \in ExecArgLists, s \in Scopes : DoExec(args, s)

ExecInit == InitExec /\ InitFlagSetIdle /\ InitTidyIdle /\ InitRestIdle

ExecNext == NextExec /\ UNCHANGED <<fsVars, tidyVars, restVars>>

SpecExec == ExecInit /\ [][ExecNext]_vars

----------------------------------------------------------------------------
(* newFilters on its own: the filters of one command and the arguments that *)
(* reach it (command.go:265-289)                                            *)

\* the filters of the command: functions, structs with -s, structs with -s and ?0
LevelKinds == Kinds \cup StructKinds

LevelFilters == SeqsUpTo(LevelKinds, MaxChain)

InitLevel ==
    /\ cmds = <<>>
    /\ notFound = FALSE
    /\ scopeMatcher = FALSE
    /\ validator = FALSE
    /\ pending = <<>>
    /\ actions = <<>>
    /\ middlewares = 0
    /\ \E fl \in LevelFilters, cmdline \in ExecArgLists :
          last = [op |-> "filters", filters |-> fl, args |-> cmdline]

\* r, args := c.newFilters(cmdline)
DoNewFilters ==
    /\ last.op = "filters"
    /\ last' = [op |-> "newFilters", filters |-> last.filters, args |-> last.args,
                ret |-> newFilters(last.filters, 1, last.args, Root, TheApp, BindAndParse,
                                   [args |-> last.args, r |-> <<>>, trace |-> <<>>])]
    /\ UNCHANGED <<cmds, notFound, scopeMatcher, validator, pending, actions, middlewares>>

LevelInit ==
    /\ InitLevel
    /\ InitFlagSetIdle /\ InitTidyIdle /\ InitRestIdle

LevelNext == DoNewFilters /\ UNCHANGED <<fsVars, tidyVars, restVars>>

SpecLevel == LevelInit /\ [][LevelNext]_vars

----------------------------------------------------------------------------
(* The struct instances of a command's struct filter and struct action:     *)
(* AddFilter and SetAction keep a factory, every Exec binds a FlagSet to an *)
(* instance the factory returns (command.go:100-112, 141-155, 272-284,      *)
(* 302-310).  An instance is an address of heap; an Exec holds the read     *)
(* lock only, so the steps of several Exec calls interleave.                *)

\* the most Exec calls in flight
MaxExecs == 2

\* the instance the program hands to AddFilter or SetAction, with a field it set
GivenObj == [Run |-> <<"g">>]
\* reflect.New(elemType): the zero value of the struct
ZeroObj == [Run |-> Empty]

\* the argument lists of the calls: no flag, -s a, -s s=a
IsoArgLists == { <<>>, << <<"-", "s">>, <<"a">> >>, << <<"-", "s">>, PlainWord >> }

\* the struct type of the filter and of the action: one string flag with a default
IsoT == << Field("Run", "string", << <<"s">> >>, <<"d">>) >>

Handlers == {"filter", "action"}

\* a variant of DeepCopy that returns the instance the handler was registered with
DeepCopyGiven(h, given) == [heap |-> h, addr |-> given]

\* actionFactory.DeepCopy / factory.DeepCopy (action.go:82-88): a new instance
DeepCopy(h, given) == [heap |-> Append(h, ZeroObj), addr |-> Len(h) + 1]

\* flagSet.StructVars(obj): every flag is bound to its field of the instance at
\* addr, which is set to the flag's default
BindObj(h, addr) ==
    [h EXCEPT ![addr] = StructVars(NewFlagSet(TRUE), IsoT).vals]

\* flagSet.Parse(cmdline) of a FlagSet bound to the instance at addr: the fields of
\* the flags given are written, the others are left as they are
ParseObj(h, addr, cmdline) ==
    [h EXCEPT ![addr] =
        Parse([StructVars(NewFlagSet(TRUE), IsoT) EXCEPT !.vals = h[addr]],
              cmdline).vals]

InitIso ==
    /\ heap = <<>>
    /\ factories = [k \in Handlers |-> 0]
    /\ execs = <<>>

\* c.AddFilter(new(T)) and c.SetAction(new(T)): the instance handed in, then the
\* copy the registration's own FlagSet is bound to
IsoRegister(k) ==
    /\ factories[k] = 0
    /\ \A e \in DOMAIN execs : execs[e].pc \in {"call", "done"}
    /\ LET given == Len(heap) + 1
           copy == DeepCopy(Append(heap, GivenObj), given)
       IN  /\ heap' = BindObj(copy.heap, copy.addr)
           /\ factories' = [factories EXCEPT ![k] = given]
    /\ UNCHANGED execs

\* the handlers an Exec binds, in the order newFilters and newAction bind them
ToBind == SelectSeq(<<"filter", "action">>, LAMBDA k : factories[k] # 0)

\* stat := c.Exec(ctx, cmdline): route takes the read lock
IsoExec(cmdline) ==
    /\ Len(execs) < MaxExecs
    /\ factories["action"] # 0
    /\ execs' = Append(execs, [pc |-> "copy", args |-> cmdline, todo |-> ToBind,
                               objs |-> <<>>, seen |-> <<>>])
    /\ UNCHANGED <<heap, factories>>

\* newObj := factory.DeepCopy()
IsoCopy(e) ==
    /\ execs[e].pc = "copy"
    /\ LET copy == DeepCopy(heap, factories[execs[e].todo[1]])
       IN  /\ heap' = copy.heap
           /\ execs' = [execs EXCEPT ![e].pc = "bind", ![e].objs = Append(@, copy.addr)]
    /\ UNCHANGED factories

\* flagSet.StructVars(newObj)
IsoBind(e) ==
    /\ execs[e].pc = "bind"
    /\ heap' = BindObj(heap, execs[e].objs[Len(execs[e].objs)])
    /\ execs' = [execs EXCEPT ![e].pc = "parse"]
    /\ UNCHANGED factories

\* err := flagSet.Parse(arguments); the next handler, or the end of route
IsoParse(e) ==
    /\ execs[e].pc = "parse"
    /\ heap' = ParseObj(heap, execs[e].objs[Len(execs[e].objs)], execs[e].args)
    /\ execs' = [execs EXCEPT ![e].todo = Tail(@),
                              ![e].pc = IF Len(execs[e].todo) > 1 THEN "copy" ELSE "call"]
    /\ UNCHANGED factories

\* handle(ctxObj): the filter, then the action, each reads the fields of its
\* instance
IsoCall(e) ==
    /\ execs[e].pc = "call"
    /\ execs' = [execs EXCEPT ![e].pc = "done",
                              ![e].seen = [i \in 1..Len(execs[e].objs) |->
                                              heap[execs[e].objs[i]]]]
    /\ UNCHANGED <<heap, factories>>

NextIso ==
    \/ \E k \in Handlers : IsoRegister(k)
    \/ \E cmdline \in IsoArgLists : IsoExec(cmdline)
    \/ \E e \in DOMAIN execs : IsoCopy(e)
    \/ \E e \in DOMAIN execs : IsoBind(e)
    \/ \E e \in DOMAIN execs : IsoParse(e)
    \/ \E e \in DOMAIN execs : IsoCall(e)

IsoInit ==
    /\ InitIso
    /\ InitFlagSetIdle /\ InitTidyIdle /\ InitCmdIdle
    /\ InitLockIdle /\ InitUsageIdle /\ InitLookIdle /\ InitTextIdle

IsoNext == NextIso /\ UNCHANGED <<fsVars, tidyVars, cmdVars, lockVars, execScopeUsageTexts, look, usageText>>

SpecIso == IsoInit /\ [][IsoNext]_vars

----------------------------------------------------------------------------
(* Command.lock: every Command has a sync.RWMutex of its own                *)
(* (command.go:33).  The goroutines of a program call the registration      *)
(* functions and the readers on the commands of one tree; a call is a few   *)
(* steps, and between two steps of one call any other call may take a step. *)

\* the goroutines
MaxThreads == 2
Threads == 1..MaxThreads

\* the tree: the root command and its subcommand b
LockCmds == {Root, <<"b">>}
ChildOf(c) == IF c = Root THEN {<<"b">>} ELSE {}

Writers == {"AddSubcommand", "AddFilter", "SetAction"}
Readers == {"Exec", "LookupSubcommand", "Subcommands", "UsageText"}

Unlocked == [writer |-> 0, readers |-> {}]
Idle == [op |-> "idle", pc |-> "idle", on |-> Root, at |-> Root]

\* c.lock.Lock() and c.lock.RLock() of sync.RWMutex
CanLock(c) == held[c].writer = 0 /\ held[c].readers = {}
CanRLock(c) == held[c].writer = 0

\* the goroutine is writing the subcommands, filters or action of c
Writes(t, c) == threads[t].pc = "write" /\ threads[t].at = c
\* the goroutine is reading them: at the command it has walked to, or walking
\* the whole tree in app.updateUsageLocked()
Reads(t, c) == \/ threads[t].pc = "read" /\ threads[t].at = c
               \/ threads[t].pc = "usage"

InitLock ==
    /\ held = [c \in LockCmds |-> Unlocked]
    /\ threads = [t \in Threads |-> Idle]

\* AddSubcommand, AddFilter, SetAction: c.lock.Lock(); defer c.lock.Unlock()
\* (command.go:77-78, 97-98, 133-134), then the fields of c are written
WriterLock(t, op, c) ==
    /\ threads[t].op = "idle"
    /\ CanLock(c)
    /\ held' = [held EXCEPT ![c].writer = t]
    /\ threads' = [threads EXCEPT ![t] = [op |-> op, pc |-> "write", on |-> c, at |-> c]]

\* c.app.updateUsageLocked(), the last statement of AddFilter and SetAction
\* (command.go:125, 171): walks every command of the tree, no lock taken
WriterUsage(t) ==
    /\ threads[t].op \in {"AddFilter", "SetAction"}
    /\ threads[t].pc = "write"
    /\ threads' = [threads EXCEPT ![t].pc = "usage"]
    /\ UNCHANGED held

\* the deferred c.lock.Unlock()
WriterUnlock(t) ==
    /\ threads[t].op \in Writers
    /\ threads[t].pc = IF threads[t].op = "AddSubcommand" THEN "write" ELSE "usage"
    /\ held' = [held EXCEPT ![threads[t].on].writer = 0]
    /\ threads' = [threads EXCEPT ![t] = Idle]

\* c.Exec: route takes c.lock.RLock() of the command Exec is called on
\* (command.go:216-217) and reads its fields
ExecRLock(t, c) ==
    /\ threads[t].op = "idle"
    /\ CanRLock(c)
    /\ held' = [held EXCEPT ![c].readers = @ \cup {t}]
    /\ threads' = [threads EXCEPT ![t] = [op |-> "Exec", pc |-> "read", on |-> c, at |-> c]]

\* LookupSubcommand, Subcommands, UsageText: the fields are read, c.lock is not
\* taken (command.go:357-386, 426-460)
ReadNoLock(t, op, c) ==
    /\ threads[t].op = "idle"
    /\ op \in Readers \ {"Exec"}
    /\ threads' = [threads EXCEPT ![t] = [op |-> op, pc |-> "read", on |-> c, at |-> c]]
    /\ UNCHANGED held

\* subCmd.findFiltersAndAction (command.go:250), r = r.subcommands[name]
\* (command.go:363), subCmd.createUsageLocked (command.go:480): the reader goes on
\* to a subcommand, whose lock it does not take
ReadSubcommand(t, sub) ==
    /\ threads[t].op \in Readers \ {"Subcommands"}
    /\ threads[t].pc = "read"
    /\ sub \in ChildOf(threads[t].at)
    /\ threads' = [threads EXCEPT ![t].at = sub]
    /\ UNCHANGED held

\* the reader returns; Exec's deferred c.lock.RUnlock()
ReaderReturn(t) ==
    /\ threads[t].op \in Readers
    /\ held' = IF threads[t].op = "Exec"
               THEN [held EXCEPT ![threads[t].on].readers = @ \ {t}]
               ELSE held
    /\ threads' = [threads EXCEPT ![t] = Idle]

NextLock ==
    \/ \E t \in Threads, op \in Writers, c \in LockCmds : WriterLock(t, op, c)
    \/ \E t \in Threads : WriterUsage(t)
    \/ \E t \in Threads : WriterUnlock(t)
    \/ \E t \in Threads, c \in LockCmds : ExecRLock(t, c)
    \/ \E t \in Threads, op \in Readers, c \in LockCmds : ReadNoLock(t, op, c)
    \/ \E t \in Threads, sub \in LockCmds : ReadSubcommand(t, sub)
    \/ \E t \in Threads : ReaderReturn(t)

LockInit ==
    /\ InitLock
    /\ InitFlagSetIdle /\ InitTidyIdle /\ InitCmdIdle
    /\ InitIsoIdle /\ InitUsageIdle /\ InitLookIdle /\ InitTextIdle

LockNext == NextLock /\ UNCHANGED <<fsVars, tidyVars, cmdVars, isoVars, execScopeUsageTexts, look, usageText>>

SpecLock == LockInit /\ [][LockNext]_vars

----------------------------------------------------------------------------
(* The usage texts by executor scope: Command.UsageText (command.go:426-460) *)
(* and App.UsageText (part_008:291-310).  A text is the sequence of its      *)
(* blocks, one for every command printed.                                    *)

\* p is a prefix of q: q is p or below p
IsPrefix(p, q) == Len(p) <= Len(q) /\ SubSeq(q, 1, Len(p)) = p

\* c.scopeCommandMap[scope] as bubbleSetScopeCmd builds it (command.go:174-185):
\* every SetAction of scope s at r adds the commands from r up to c; an action
\* and its scope are set once and nothing is ever removed
scopeCommandMap(cs, c, scope) ==
    { q \in DOMAIN cs :
        /\ IsPrefix(c, q)
        /\ \E r \in DOMAIN cs : cs[r].action # "none" /\ cs[r].scope = scope /\ IsPrefix(q, r) }

\* the commands UsageText prints for an executor scope (command.go:446-453)
matched(cs, c, execScope) ==
    UNION { scopeCommandMap(cs, c, s) : s \in { x \in Scopes : scopeMatcherFunc(x, execScope) = "nil" } }

\* newUsageLocked (command.go:486-515): the path, " ..." when there is no
\* action, and a line for every flag of the struct filters and the struct action
newUsageLocked(cs, c) ==
    [path |-> c,
     ellipsis |-> cs[c].action = "none",
     flags |-> Len(SelectSeq(cs[c].filters, LAMBDA k : k = "struct"))
               + (IF cs[c].action = "struct" THEN 1 ELSE 0)]

\* sort.Strings(names) of Subcommands (command.go:373-386)
SortedNames(names) == SelectSeq(<< <<"a">>, <<"b">> >>, LAMBDA n : n \in names)

\* createUsageLocked (command.go:473-484)
RECURSIVE createUsageLocked(_, _, _)
RECURSIVE createUsageOfSubcommands(_, _, _, _)
createUsageOfSubcommands(cs, c, m, names) ==
    IF names = <<>> THEN <<>>
    ELSE createUsageLocked(cs, Append(c, Head(names)), m)
         \o createUsageOfSubcommands(cs, c, m, Tail(names))

createUsageLocked(cs, c, m) ==
    IF c \notin m THEN <<>>
    ELSE <<newUsageLocked(cs, c)>>
         \o createUsageOfSubcommands(cs, c, m, SortedNames(cs[c].subcommands))

\* the text a computation over the tree gives
FreshUsageText(cs, c, execScope) == createUsageLocked(cs, c, matched(cs, c, execScope))

\* the App's template around the root command's text (part_008:357-380)
AppUsage(text) == <<[path |-> AppCmdName, ellipsis |-> FALSE, flags |-> 0]>> \o text

NoTexts == [app |-> <<>>, cmd |-> <<>>]

\* c.execScopeUsageTexts
TextsOf(texts, c) == IF c \in DOMAIN texts.cmd THEN texts.cmd[c] ELSE <<>>

\* Command.UsageText(execScope) with a scope matcher set (command.go:426-460)
CommandUsageText(cs, texts, c, execScope) ==
    IF execScope \in DOMAIN TextsOf(texts, c)
    THEN [texts |-> texts, ret |-> TextsOf(texts, c)[execScope]]
    ELSE LET txt == FreshUsageText(cs, c, execScope)
         IN  [texts |-> [texts EXCEPT !.cmd = Extend(@, c, Extend(TextsOf(texts, c), execScope, txt))],
              ret |-> txt]

\* App.UsageText(execScope) with a scope matcher set (part_008:291-310)
AppUsageText(cs, texts, execScope) ==
    IF execScope \in DOMAIN texts.app
    THEN [texts |-> texts, ret |-> texts.app[execScope]]
    ELSE LET r == CommandUsageText(cs, texts, Root, execScope)
         IN  [texts |-> [r.texts EXCEPT !.app = Extend(@, execScope, AppUsage(r.ret))],
              ret |-> AppUsage(r.ret)]

\* SetAction: c.app.execScopeUsageTexts = make(...) (command.go:169), then
\* bubbleSetScopeCmd empties the map of c and of every command above it
\* (command.go:175, 182-184)
ClearedBySetAction(texts, c) ==
    [app |-> <<>>,
     cmd |-> [q \in DOMAIN texts.cmd |-> IF IsPrefix(q, c) THEN <<>> ELSE texts.cmd[q]]]

InitUsage ==
    /\ cmds = (Root :> newCommand)
    /\ notFound = FALSE
    /\ scopeMatcher = TRUE
    /\ validator = FALSE
    /\ pending = <<>>
    /\ actions = <<>>
    /\ middlewares = 0
    /\ last = NoCall
    /\ execScopeUsageTexts = NoTexts

\* c.AddSubcommand(cmdName, "", filters...): no map is emptied (command.go:73-90)
UsageAddSubcommand(c, cmdName, filters) ==
    /\ DoAddSubcommand(c, cmdName, filters, FALSE)
    /\ UNCHANGED execScopeUsageTexts

\* c.AddFilter(filter): no map is emptied (command.go:96-126)
UsageAddFilter(c, filter) ==
    /\ DoAddFilter(c, filter, FALSE)
    /\ UNCHANGED execScopeUsageTexts

\* c.SetAction(action, scope) (command.go:132-172)
UsageSetAction(c, action, scope) ==
    /\ DoSetAction(c, action, scope, FALSE)
    /\ execScopeUsageTexts' = IF SetAction(cmds, c, action, scope).ret = "ok"
                              THEN ClearedBySetAction(execScopeUsageTexts, c)
                              ELSE execScopeUsageTexts

\* txt := c.UsageText(execScope)
DoCommandUsageText(c, execScope) ==
    LET r == CommandUsageText(cmds, execScopeUsageTexts, c, execScope) IN
    /\ scopeMatcher
    /\ execScopeUsageTexts' = r.texts
    /\ last' = [op |-> "UsageText", app |-> FALSE, path |-> c, execScope |-> execScope,
                ret |-> r.ret]
    /\ UNCHANGED <<cmds, notFound, scopeMatcher, validator, pending, actions, middlewares>>

\* txt := app.UsageText(execScope)
DoAppUsageText(execScope) ==
    LET r == AppUsageText(cmds, execScopeUsageTexts, execScope) IN
    /\ scopeMatcher
    /\ execScopeUsageTexts' = r.texts
    /\ last' = [op |-> "UsageText", app |-> TRUE, path |-> Root, execScope |-> execScope,
                ret |-> r.ret]
    /\ UNCHANGED <<cmds, notFound, scopeMatcher, validator, pending, actions, middlewares>>

NextUsage ==
    \/ \E c \in DOMAIN cmds, n \in ExecNames, fl \in FilterLists : UsageAddSubcommand(c, n, fl)
    \/ \E c \in DOMAIN cmds, k \in Kinds : UsageAddFilter(c, k)
    \/ \E c \in DOMAIN cmds, a \in Kinds, s \in Scopes : UsageSetAction(c, a, s)
    \/ \E c \in DOMAIN cmds, s \in Scopes : DoCommandUsageText(c, s)
    \/ \E s \in Scopes : DoAppUsageText(s)

UsageInit ==
    /\ InitUsage
    /\ InitFlagSetIdle /\ InitTidyIdle
    /\ InitIsoIdle /\ InitLockIdle /\ InitLookIdle /\ InitTextIdle

UsageNext == NextUsage /\ UNCHANGED <<fsVars, tidyVars, isoVars, lockVars, look, usageText>>

SpecUsage == UsageInit /\ [][UsageNext]_vars

----------------------------------------------------------------------------
(* LookupArgs (src/global.go:59-77), called on an argument list and a name *)

\* a variant of LookupArgs that does not split off the command name
LookupArgsNoSplit(args, name) ==
    LET filteredArgs == tidyArgs(args, FilterFirst(name)).tidiedArgs
    IN  IF Len(filteredArgs) = 0 THEN [value |-> Empty, found |-> FALSE]
        ELSE IF Len(filteredArgs) = 1 THEN [value |-> Empty, found |-> TRUE]
        ELSE [value |-> filteredArgs[2], found |-> TRUE]

\* LookupArgs lookups the value corresponding to the name directly from the
\* arguments.
LookupArgs(args, name) ==
    LET filteredArgs == tidyArgs(SplitArgs(args).args, FilterFirst(name)).tidiedArgs
    IN  IF Len(filteredArgs) = 0 THEN [value |-> Empty, found |-> FALSE]
        ELSE IF Len(filteredArgs) = 1 THEN [value |-> Empty, found |-> TRUE]
        ELSE [value |-> filteredArgs[2], found |-> TRUE]

\* the tokens of the lists: those of Parse, and -s=, --s and the empty string
LookTokens == Tokens \cup { <<"-", "s", "=">>, <<"-", "-", "s">>, Empty }

LookArgLists == SeqsUpTo(LookTokens, MaxArgs)

\* the names looked up
LookNames == { <<"s">>, <<"v">> }

InitLook ==
    \E args \in LookArgLists, name \in LookNames :
        look = [args |-> args, name |-> name, called |-> FALSE,
                ret |-> [value |-> Empty, found |-> FALSE]]

\* value, found := LookupArgs(args, name)
DoLookupArgs ==
    /\ ~look.called
    /\ look' = [look EXCEPT !.called = TRUE, !.ret = LookupArgs(look.args, look.name)]

LookInit ==
    /\ InitLook
    /\ InitFlagSetIdle /\ InitTidyIdle /\ InitCmdIdle
    /\ InitIsoIdle /\ InitLockIdle /\ InitUsageIdle /\ InitTextIdle

LookNext == DoLookupArgs /\ UNCHANGED <<fsVars, tidyVars, cmdVars, isoVars, lockVars, execScopeUsageTexts, usageText>>

SpecLookup == LookInit /\ [][LookNext]_vars

----------------------------------------------------------------------------
(* tidyArgs called on lists that hold -s=, --s and the empty string too *)

InitStep ==
    /\ tidyIn \in LookArgLists
    /\ tidyOut = <<>>

StepInit == InitStep /\ InitFlagSetIdle /\ InitCmdIdle /\ InitRestIdle

SpecStep == StepInit /\ [][TidyNext]_vars

----------------------------------------------------------------------------
(* LookupOptions (src/global.go:27-57), one turn of its loop a step *)

\* Option command option (global.go:20-25)
Option(cmd, name, value) == [Command |-> cmd, Name |-> name, Value |-> value]

\* a variant of the closure of LookupOptions that returns false at the first flag
\* named name
RECURSIVE filterOptionsFirst(_, _, _, _)
filterOptionsFirst(args, cmd, name, r) ==
    LET one == tidyOneArg(args) IN
    IF ~one.seen
    THEN [r |-> r, lastArgs |-> one.lastArgs, err |-> one.err]
    ELSE IF one.name = name
    THEN [r |-> Append(r, Option(cmd, name, IF one.hasValue THEN one.value ELSE Empty)),
          lastArgs |-> one.lastArgs, err |-> one.err]
    ELSE filterOptionsFirst(one.lastArgs, cmd, name, r)

\* filterArgs with the closure of LookupOptions as its filter (global.go:38-51,
\* flag.go:531-546): an Option for every flag named name, and always next
RECURSIVE filterOptions(_, _, _, _)
filterOptions(args, cmd, name, r) ==
    LET one == tidyOneArg(args) IN
    IF ~one.seen
    THEN [r |-> r, lastArgs |-> one.lastArgs, err |-> one.err]
    ELSE filterOptions(one.lastArgs, cmd, name,
                       IF one.name = name
                       THEN Append(r, Option(cmd, name, IF one.hasValue THEN one.value ELSE Empty))
                       ELSE r)

\* the tokens of the lists: -s, -s=a, -y, the terminator, a command name or
\* value, a bare dash, the empty string, and the malformed -=s
OptTokens == { <<"-", "s">>, <<"-", "s", "=", "a">>, <<"-", "y">>, DashDash, <<"a">>,
               <<"-">>, Empty, <<"-", "=", "s">> }

OptArgLists == SeqsUpTo(OptTokens, MaxArgs)

\* the names looked up
OptNames == { <<"s">>, Empty }

\* the turns of the loop that are followed
MaxTurns == MaxArgs + 2

\* r := LookupOptions(args, name): if name == "" { return nil }
InitOptions ==
    \E args \in OptArgLists, name \in OptNames :
        look = [args |-> args, name |-> name, arguments |-> args, r |-> <<>>,
                pc |-> IF name = Empty THEN "done" ELSE "for", turns |-> 0]

\* one turn of the loop: SplitArgs, filterArgs, and the return when there was an
\* error or nothing is left
OptionsTurn ==
    /\ look.pc = "for"
    /\ look.turns < MaxTurns
    /\ LET sp == SplitArgs(look.arguments)
           f == filterOptions(sp.args, sp.cmd, look.name, look.r)
       IN  look' = [look EXCEPT !.arguments = f.lastArgs, !.r = f.r, !.turns = @ + 1,
                                !.pc = IF f.err # "none" \/ Len(f.lastArgs) = 0
                                       THEN "done" ELSE "for"]

OptInit ==
    /\ InitOptions
    /\ InitFlagSetIdle /\ InitTidyIdle /\ InitCmdIdle
    /\ InitIsoIdle /\ InitLockIdle /\ InitUsageIdle /\ InitTextIdle

OptNext == OptionsTurn /\ UNCHANGED <<fsVars, tidyVars, cmdVars, isoVars, lockVars, execScopeUsageTexts, usageText>>

SpecOptions == OptInit /\ [][OptNext]_vars

----------------------------------------------------------------------------
(* The action-map App: Use, SetOptions, AddAction, SetNotFound and Exec     *)
(* (src/app.go:1321-1461, 1526-1543, 1600-1630).  The global options are    *)
(* the action named "".                                                     *)

\* the most middlewares
MaxMiddlewares == 2

\* the tokens handed to Exec: the flag -s, a and b (command names, a also a
\* value), and the terminator
MapTokens == { <<"-", "s">>, <<"a">>, <<"b">>, DashDash }

MapArgLists == SeqsUpTo(MapTokens, MaxArgs)

\* pickCommandAndOptions (app.go:1600-1621); pickCommand is SplitArgs
pickCommandAndOptions(cmdline) ==
    LET p1 == SplitArgs(cmdline)
        t1 == tidyArgs(p1.args, FilterAll)
        r1 == (p1.cmd :> t1.tidiedArgs)
        p2 == SplitArgs(t1.lastArgs)
        t2 == tidyArgs(p2.args, FilterAll)
    IN  IF t1.err # "none" THEN [r |-> <<>>, err |-> t1.err]
        ELSE IF Len(t1.lastArgs) = 0 THEN [r |-> r1, err |-> "none"]
        ELSE IF p2.cmd = Empty THEN [r |-> r1, err |-> "subcommand is empty"]
        ELSE IF t2.err # "none" THEN [r |-> r1, err |-> t2.err]
        ELSE [r |-> Extend(r1, p2.cmd, t2.tidiedArgs), err |-> "none"]

\* the orders "for cmdName := range argsGroup" may visit the keys of the map in:
\* the iteration order of a Go map is not specified
RangeOrders(keys) ==
    { o \in SeqsUpTo(keys, 2) :
        /\ Len(o) = Cardinality(keys)
        /\ \A i, j \in 1..Len(o) : i # j => o[i] # o[j] }

MapEvent(ev, cmdName, mw) == [ev |-> ev, cmd |-> cmdName, mw |-> mw]

\* the loop of route over argsGroup (app.go:1429-1445): the actions picked, or
\* the not-found handler, or the Status thrown
RECURSIVE pickActions(_, _, _, _, _)
pickActions(acts, nf, order, i, picked) ==
    IF i > Len(order) THEN [thrown |-> FALSE, actions |-> picked, notFound |-> <<>>]
    ELSE IF order[i] \notin DOMAIN acts
    THEN IF nf THEN [thrown |-> FALSE, actions |-> <<>>, notFound |-> <<order[i]>>]
         ELSE [thrown |-> TRUE, actions |-> <<>>, notFound |-> <<>>]
    ELSE pickActions(acts, nf, order, i + 1, Append(picked, order[i]))

\* Action.handle (app.go:1531-1535) on the options of a command: a new FlagSet
\* bound to the struct after Parse of the options
ParseOptions ==
    [options \in MapArgLists |-> Parse(StructVars(NewFlagSet(TRUE), OptionsT), options)]

\* handlerFunc (app.go:1446-1452) and Action.handle (app.go:1526-1543): every
\* action in turn, a struct handler after Parse of the options of its command;
\* bound is ParseOptions
RECURSIVE handleActions(_, _, _, _, _, _)
handleActions(acts, argsGroup, picked, i, trace, bound) ==
    IF i > Len(picked) THEN [status |-> NoStatus, trace |-> trace]
    ELSE
    LET cmdName == picked[i]
        err == IF acts[cmdName] = "func" THEN "none"
               ELSE bound[argsGroup[cmdName]].err
    IN  IF err # "none"
        THEN [status |-> [code |-> StatusParseFailed, cause |-> err, cmdPath |-> <<>>],
              trace |-> trace]
        ELSE handleActions(acts, argsGroup, picked, i + 1,
                           Append(trace, MapEvent("Handle", cmdName, 0)), bound)

\* the middlewares around the handler (app.go:1453-1459): each calls next; nothing
\* runs after a panic
RECURSIVE withMiddlewares(_, _)
withMiddlewares(n, inner) ==
    IF n = 0 THEN inner
    ELSE withMiddlewares(n - 1,
            [status |-> inner.status,
             trace |-> <<MapEvent("start", Empty, n)>> \o inner.trace
                       \o (IF inner.status.code = 0 THEN <<MapEvent("end", Empty, n)>> ELSE <<>>)])

\* App.Exec of the action-map App (app.go:1412-1461), the keys visited in order
ExecMap(acts, nf, mws, cmdline, order) ==
    LET g == pickCommandAndOptions(cmdline)
        a == pickActions(acts, nf, order, 1, <<>>)
    IN  IF g.err # "none"
        THEN [status |-> [code |-> StatusBadArgs, cause |-> g.err, cmdPath |-> <<>>],
              trace |-> <<>>]
        ELSE IF a.thrown
        THEN [status |-> [code |-> StatusNotFound, cause |-> "not defined", cmdPath |-> <<>>],
              trace |-> <<>>]
        ELSE IF a.notFound # <<>>
        THEN withMiddlewares(mws, [status |-> NoStatus,
                                   trace |-> <<MapEvent("notFound", a.notFound[1], 0)>>])
        ELSE withMiddlewares(mws, handleActions(acts, g.r, a.actions, 1, <<>>, ParseOptions))

InitMap ==
    /\ cmds = <<>>
    /\ notFound = FALSE
    /\ scopeMatcher = FALSE
    /\ validator = FALSE
    /\ pending = <<>>
    /\ actions = <<>>
    /\ middlewares = 0
    /\ last = NoCall

\* app.Use(mw)
DoUse ==
    /\ middlewares < MaxMiddlewares
    /\ middlewares' = middlewares + 1
    /\ last' = NoCall
    /\ UNCHANGED <<cmds, notFound, scopeMatcher, validator, pending, actions>>

\* err := app.SetOptions(handler) (app.go:1340-1345)
DoSetOptions(handler) ==
    LET r == regAction(actions, Empty, handler) IN
    /\ actions' = r.actions
    /\ last' = NoCall
    /\ UNCHANGED <<cmds, notFound, scopeMatcher, validator, pending, middlewares>>

\* err := app.AddAction(cmdName, "", handler)
DoMapAddAction(cmdName, handler) ==
    LET r == AddAction(actions, cmdName, handler) IN
    /\ actions' = r.actions
    /\ last' = NoCall
    /\ UNCHANGED <<cmds, notFound, scopeMatcher, validator, pending, middlewares>>

\* stat := app.Exec(ctx, arguments)
DoExecMap(cmdline) ==
    /\ \E order \in RangeOrders(DOMAIN pickCommandAndOptions(cmdline).r) :
          last' = [op |-> "Exec", args |-> cmdline,
                   ret |-> ExecMap(actions, notFound, middlewares, cmdline, order)]
    /\ UNCHANGED <<cmds, notFound, scopeMatcher, validator, pending, actions, middlewares>>

NextMap ==
    \/ Running /\ DoUse
    \/ Running /\ \E h \in Kinds : DoSetOptions(h)
    \/ Running /\ \E n \in Names, h \in Kinds : DoMapAddAction(n, h)
    \/ Running /\ DoSetNotFound
    \/ Running /\ \E cmdline \in MapArgLists : DoExecMap(cmdline)

MapInit ==
    /\ InitMap
    /\ InitFlagSetIdle /\ InitTidyIdle
    /\ InitIsoIdle /\ InitLockIdle /\ InitUsageIdle /\ InitLookIdle /\ InitTextIdle

MapNext == NextMap /\ UNCHANGED <<fsVars, tidyVars, isoVars, lockVars, execScopeUsageTexts, look, usageText>>

SpecMap == MapInit /\ [][MapNext]_vars

----------------------------------------------------------------------------
(* Reading an argument list as the specification describes it *)

BeginsDash(t) == Len(t) > 0 /\ t[1] = "-"

\* a token that looks like a flag: it starts with '-', is longer than "-" and is
\* not the terminator
FlagShaped(t) == Len(t) >= 2 /\ t[1] = "-" /\ t # DashDash

\* the name of a flag-shaped token with its leading "-" or "--" stripped
Stripped(t) == IF t[2] = "-" THEN Drop(t, 2) ELSE Drop(t, 1)

WellFormed(t) ==
    /\ FlagShaped(t)
    /\ Len(Stripped(t)) > 0
    /\ Stripped(t)[1] \notin {"-", "="}

Malformed(t) == FlagShaped(t) /\ ~WellFormed(t)

HasEq(t) == \E i \in 1..Len(t) : t[i] = "="

\* the flag name a well-formed token carries
NameOf(t) ==
    LET n == Stripped(t)
        hits == { i \in 1..Len(n) : n[i] = "=" }
    IN  IF hits = {} THEN n
        ELSE Take(n, (CHOOSE i \in hits : \A j \in hits : i <= j) - 1)

\* how many tokens the flag at position j takes when a flag without "=" takes the
\* next token as its value unless that token starts with '-'
TokWidth(args, j) ==
    IF HasEq(args[j]) \/ j = Len(args) THEN 1
    ELSE IF BeginsDash(args[j + 1]) THEN 1 ELSE 2

\* position i lies in the leading flag run: every token before it is a well-formed
\* flag or the value of one
RECURSIVE InFlagRun(_, _)
InFlagRun(args, i) ==
    \/ i = 1
    \/ \E j \in 1..(i - 1) :
         /\ InFlagRun(args, j)
         /\ WellFormed(args[j])
         /\ i = j + TokWidth(args, j)

\* how many tokens the standard (strict) scan takes for the registered flag at j:
\* a boolean flag and a name=value token take one, any other flag takes the next
\* token whatever it is
StrictWidth(args, j) ==
    IF HasEq(args[j]) THEN 1
    ELSE IF NameOf(args[j]) \in DOMAIN formal /\ formal[NameOf(args[j])].kind # "bool"
         THEN 2 ELSE 1

\* position i is reached by the strict scan as a flag position
RECURSIVE StrictReach(_, _)
StrictReach(args, i) ==
    \/ i = 1
    \/ \E j \in 1..(i - 1) :
         /\ StrictReach(args, j)
         /\ WellFormed(args[j])
         /\ i = j + StrictWidth(args, j)

NoDashDash(args) == \A i \in 1..Len(args) : args[i] # DashDash

IsSuffix(t, s) == Len(t) <= Len(s) /\ t = Drop(s, Len(s) - Len(t))

\* the value a declared slot or flag of kind k holds after text was stored in it
Converted(kind, text) == ValueSet(kind, text).val

\* the default the bound struct type declares for a field
DefaultOf(field) ==
    LET T == StructTypes[structT]
        i == CHOOSE j \in 1..Len(T) : T[j].field = field
    IN  DefValue(T[i].kind, T[i].def)

----------------------------------------------------------------------------
(* Claims about FlagSet.Parse, checked under Spec *)

\* C1: in ContinueOnUndefined mode, Parse of a list whose flag-shaped tokens are all
\* well-formed never returns the error of an unregistered flag name.
C1_TolerantNeverUndefined ==
    (/\ parsed
     /\ isContinueOnUndefined
     /\ \A i \in 1..Len(arguments) :
            FlagShaped(arguments[i]) => WellFormed(arguments[i]))
    => perr # "flag provided but not defined"

C4_PositionalBinding ==
    (/\ parsed
     /\ perr = "none"
     /\ DOMAIN nonFormal # {}
     /\ DOMAIN nonFormal = 0..(Cardinality(DOMAIN nonFormal) - 1)
     /\ ~terminated)
    => \A k \in DOMAIN nonFormal :
         IF k < Len(fargs)
         THEN /\ vals[nonFormal[k].field] = Converted(nonFormal[k].kind, fargs[k + 1])
              /\ k \in nonActual
         ELSE /\ vals[nonFormal[k].field] = DefaultOf(nonFormal[k].field)
              /\ k \notin nonActual

\* slots 0 and 1 bound from a list without any named flag, slot 2 left at its default
C4_Witness ==
    /\ parsed
    /\ perr = "none"
    /\ structT = "ArgsT"
    /\ isContinueOnUndefined
    /\ actual = {}
    /\ arguments = << <<"a">>, <<"0">> >>
    /\ vals["Non0"] = <<"a">>
    /\ vals["Non1"] = FALSE
    /\ vals["Non2"] = Empty

\* C5: a declared slot k is bound to the k-th non-flag argument whether or not every
\* lower index is declared.
C5_SparseSlotsBound ==
    (/\ parsed
     /\ perr = "none"
     /\ NoDashDash(arguments))
    => \A k \in DOMAIN nonFormal :
         k < Len(fargs) =>
             vals[nonFormal[k].field] = Converted(nonFormal[k].kind, fargs[k + 1])

\* the highest declared index plus one, 0 when no slot is declared
HighestPlusOne ==
    IF DOMAIN nonFormal = {} THEN 0
    ELSE 1 + CHOOSE m \in DOMAIN nonFormal : \A j \in DOMAIN nonFormal : j <= m

\* C6: NextArgs returns the non-flag arguments Args() from position m on, m being the
\* highest declared index plus one, and nothing when at most m remain; in strict mode
\* that tail is a suffix of the list handed to Parse, "--" tokens included.
C6_NextArgsOffset ==
    nextArgs.called =>
        /\ Len(nextArgs.args) = (IF Len(fargs) > HighestPlusOne
                                 THEN Len(fargs) - HighestPlusOne ELSE 0)
        /\ \A i \in 1..Len(nextArgs.args) :
               nextArgs.args[i] = fargs[HighestPlusOne + i]
        /\ ~isContinueOnUndefined => IsSuffix(nextArgs.args, arguments)

\* slots 0 and 3 declared, four non-flag arguments of which the third is "--"
C6_Witness ==
    /\ nextArgs.called
    /\ structT = "SparseT"
    /\ ~isContinueOnUndefined
    /\ Len(fargs) = 4
    /\ fargs[3] = DashDash
    /\ nextArgs.args = <<>>

\* the tokens that give the field View a value through one of its names w, v
ViewTokens == { t \in Tokens : WellFormed(t) /\ NameOf(t) \in {<<"w">>, <<"v">>} }

\* the value a token of ViewTokens gives: that of name=value, true without a value
ViewGiven(t) ==
    IF HasEq(t) THEN Converted("bool", Drop(Stripped(t), Len(NameOf(t)) + 1))
    ELSE TRUE

\* C7: after Parse a field with several names holds the value given through the last
\* of its aliases on the command line, and its default when none is given (stated
\* for lists made of alias flags only).
C7_AliasesShareStorage ==
    (/\ parsed
     /\ perr = "none"
     /\ structT = "ArgsT"
     /\ \A i \in 1..Len(arguments) : arguments[i] \in ViewTokens)
    => vals["View"] = (IF arguments = <<>> THEN DefaultOf("View")
                       ELSE ViewGiven(arguments[Len(arguments)]))

----------------------------------------------------------------------------
(* Claims about tidyArgs, checked under SpecTidy *)

\* F is a run of well-formed flag tokens, each with the value it takes
IsFlagRun(F) ==
    \A i \in 1..Len(F) :
        IF InFlagRun(F, i) THEN WellFormed(F[i])
        ELSE i > 1 /\ InFlagRun(F, i - 1) /\ WellFormed(F[i - 1])
             /\ TokWidth(F, i - 1) = 2

\* the flags of a flag run in their order, each as -name or -name value
RECURSIVE FlagsOf(_)
FlagsOf(F) ==
    IF F = <<>> THEN <<>>
    ELSE IF HasEq(F[1])
         THEN << <<"-">> \o NameOf(F[1]),
                 Drop(Stripped(F[1]), Len(NameOf(F[1])) + 1) >> \o FlagsOf(Tail(F))
         ELSE IF Len(F) >= 2 /\ ~BeginsDash(F[2])
              THEN << <<"-">> \o NameOf(F[1]), F[2] >> \o FlagsOf(Drop(F, 2))
              ELSE << <<"-">> \o NameOf(F[1]) >> \o FlagsOf(Tail(F))

FirstDashDash(args) ==
    LET hits == { i \in 1..Len(args) : args[i] = DashDash }
    IN  IF hits = {} THEN 0 ELSE CHOOSE i \in hits : \A j \in hits : i <= j

\* C3: on F ++ ["--"] ++ R, F a run of well-formed flags, tidyArgs with the
\* accept-everything filter returns the flags of F in order, R untouched as the
\* residual, and terminated; called again on R, itself a run of flags, it returns
\* R's flags and an empty residual.
C3_TerminatorSplits ==
    LET k == FirstDashDash(tidyIn)
        F == Take(tidyIn, k - 1)
        R == Drop(tidyIn, k)
    IN  (k > 0 /\ IsFlagRun(F)) =>
          /\ Len(tidyOut) >= 1 =>
               /\ tidyOut[1].err = "none"
               /\ tidyOut[1].terminated
               /\ tidyOut[1].tidiedArgs = FlagsOf(F)
               /\ tidyOut[1].lastArgs = R
          /\ (Len(tidyOut) = 2 /\ IsFlagRun(R)) =>
               /\ tidyOut[2].err = "none"
               /\ ~tidyOut[2].terminated
               /\ tidyOut[2].tidiedArgs = FlagsOf(R)
               /\ tidyOut[2].lastArgs = <<>>

\* -s a -- -w : [-s a] with residual [-w], then [-w] with an empty residual
C3_Witness ==
    /\ tidyIn = << <<"-", "s">>, <<"a">>, DashDash, <<"-", "w">> >>
    /\ Len(tidyOut) = 2
    /\ tidyOut[1].tidiedArgs = << <<"-", "s">>, <<"a">> >>
    /\ tidyOut[2].tidiedArgs = << <<"-", "w">> >>
    /\ tidyOut[2].lastArgs = <<>>

----------------------------------------------------------------------------
(* Claims about the registration calls, checked under SpecCmd *)

\* C8: in every state the registration calls reach, panicking calls included, no
\* command has both an action and a subcommand.
C8_ActionXorSubcommands ==
    \A p \in DOMAIN cmds :
        ~(cmds[p].action # "none" /\ cmds[p].subcommands # {})

\* AddSubaction's SetAction panicked: its new command was given a subcommand by a
\* call made between AddSubaction's two calls
C8_Witness ==
    /\ last.op = "SetAction"
    /\ last.ret = "panic: some subcommands have been set, no action can be set"
    /\ Len(last.path) = 1
    /\ cmds[last.path].subcommands # {}
    /\ cmds[last.path].action = "none"

\* C9: a duplicate registration fails at once and overwrites nothing: AddSubcommand
\* and AddSubaction with the name of an existing subcommand panic, SetAction on a
\* command that has an action panics, AddAction with the name of an existing action
\* returns an error, and each leaves what was registered as it was.
C9_DuplicateFails ==
    [][ /\ (/\ last'.op \in {"AddSubcommand", "AddSubaction"}
            /\ last'.name \in cmds[last'.path].subcommands)
           => (last'.ret = "panic: action named already exists" /\ cmds' = cmds)
        /\ (/\ last'.op = "SetAction"
            /\ cmds[last'.path].action # "none")
           => (last'.ret = "panic: an action have been set" /\ cmds' = cmds)
        /\ (/\ last'.op = "AddAction"
            /\ last'.name \in DOMAIN actions)
           => (/\ last'.ret = "error: an action named already exists"
               /\ actions' = actions)
      ]_vars

C9_Witness ==
    /\ last.op = "AddSubcommand"
    /\ last.ret = "panic: action named already exists"
    /\ last.name \in cmds[last.path].subcommands
    /\ cmds[Append(last.path, last.name)].action # "none"

----------------------------------------------------------------------------
(* Claims about Exec, checked under SpecExec *)

IsProperPrefix(p, q) == Len(p) < Len(q) /\ p = Take(q, Len(p))

\* C10: with a scope matcher set, an Exec that arrives at a command whose action's
\* scope the matcher rejects returns the Status StatusMismatchScope (5) with the
\* matcher's error as cause; no Filter and no action has been called, and the only
\* thing that happened is the argument binding of the filters above that command.
C10_MismatchScope ==
    (/\ last.op = "Exec"
     /\ scopeMatcher
     /\ cmds[last.ret.at].action # "none"
     /\ cmds[last.ret.at].scope # last.execScope)
    => /\ last.ret.status.code = 5
       /\ last.ret.status.code = StatusMismatchScope
       /\ last.ret.status.cause = "scopes are not equal"
       /\ \A i \in 1..Len(last.ret.trace) :
            /\ last.ret.trace[i].ev = "bind filter"
            /\ IsProperPrefix(last.ret.trace[i].at, last.ret.at)

\* the root's struct filter was bound, then the subcommand's scope was rejected
C10_Witness ==
    /\ last.op = "Exec"
    /\ scopeMatcher
    /\ Len(last.ret.at) = 1
    /\ cmds[last.ret.at].scope = 1
    /\ last.execScope = 0
    /\ last.ret.status.code = StatusMismatchScope
    /\ last.ret.trace = << Event("bind filter", Root, 1, "struct", NoObj) >>

\* the handlers an Exec called, in order: the trace without the argument bindings
Called(ret) == SelectSeq(ret.trace, LAMBDA e : e.ev \notin {"bind filter", "bind action"})

Ran(ret, ev) == \E i \in 1..Len(ret.trace) : ret.trace[i].ev = ev

\* an Exec of the path of a command that has a struct action, followed by the
\* plain word s=a, with a not-found handler configured
PlainWordAfter(q) ==
    /\ last.op = "Exec"
    /\ notFound
    /\ q \in DOMAIN cmds \ {Root}
    /\ cmds[q].action = "struct"
    /\ last.args = q \o <<PlainWord>>

RECURSIVE PathFilters(_, _)
PathFilters(q, k) ==
    IF k > Len(q) THEN <<>>
    ELSE [i \in 1..Len(cmds[Take(q, k)].filters) |->
             [at |-> Take(q, k), idx |-> i, kind |-> cmds[Take(q, k)].filters[i]]]
         \o PathFilters(q, k + 1)

\* how many of the filters F are entered: all of them, or those up to the first
\* that does not call next
Entered(F) ==
    LET stops == { k \in 1..Len(F) : F[k].kind = "stop" }
    IN  IF stops = {} THEN Len(F) ELSE CHOOSE k \in stops : \A j \in stops : k <= j

SameHandler(e, ev, f) == e.ev = ev /\ e.at = f.at /\ e.idx = f.idx

\* C12: when Exec resolves an action, the handlers are entered in this order and
\* each at most once: the filters of the outermost matched command in registration
\* order, then those of each deeper command on the path, then the action; a filter
\* or the action is entered only if every filter before it called next, and each
\* filter's code after next runs after everything inside it has returned.
C12_FilterOrder ==
    (/\ last.op = "Exec"
     /\ last.ret.status.code = 0
     /\ cmds[last.ret.at].action # "none")
    => LET H == Called(last.ret)
           F == PathFilters(last.ret.at, 0)
           m == Entered(F)
           inner == IF \A k \in 1..Len(F) : F[k].kind # "stop" THEN 1 ELSE 0
       IN  /\ Len(H) = 2 * m + inner
           /\ \A k \in 1..m :
                  /\ SameHandler(H[k], "Filter", F[k])
                  /\ SameHandler(H[Len(H) + 1 - k], "Filter end", F[k])
           /\ inner = 1 => (H[m + 1].ev = "Execute" /\ H[m + 1].at = last.ret.at)

\* a struct filter on the root, a function filter on a, the action of a inside both
C12_Witness ==
    /\ last.op = "Exec"
    /\ last.ret.status.code = 0
    /\ last.ret.at = << <<"a">> >>
    /\ cmds[Root].filters = <<"struct">>
    /\ cmds[last.ret.at].filters = <<"func">>
    /\ LET H == Called(last.ret)
       IN  /\ Len(H) = 5
           /\ H[1].ev = "Filter" /\ H[1].at = Root
           /\ H[2].ev = "Filter" /\ H[2].at = last.ret.at
           /\ H[3].ev = "Execute"
           /\ H[4].ev = "Filter end" /\ H[4].at = last.ret.at
           /\ H[5].ev = "Filter end" /\ H[5].at = Root

\* resolution found no action: it ended, without a parse or validation failure,
\* on a command that has none
NoActionFound ==
    /\ last.op = "Exec"
    /\ cmds[last.ret.at].action = "none"
    /\ last.ret.status.code \notin {StatusParseFailed, StatusValidateFailed}

\* cp is the path attempted from the command at p: the names from the root's down
\* to p, then the word of args that named no child of p, if there was one
IsAttemptedPath(cp, p, args) ==
    LET base == <<AppCmdName>> \o p
    IN  \/ cp = base
        \/ /\ Len(cp) = Len(base) + 1
           /\ Take(cp, Len(base)) = base
           /\ cp[Len(cp)] \notin cmds[p].subcommands
           /\ ~BeginsDash(cp[Len(cp)])
           /\ \E i \in 1..Len(args) : args[i] = cp[Len(cp)]

\* C13: when resolution finds no action and a not-found handler is configured, Exec
\* calls the not-found handler once in place of an action, calls no filter's Filter
\* and no action, hands it a Context whose command path is the attempted path, and
\* returns an OK Status.
C13_NotFoundHandler ==
    (NoActionFound /\ notFound)
    => /\ last.ret.status.code = 0
       /\ Called(last.ret) = << Event("notFound", last.ret.at, 0, "func", NoObj) >>
       /\ last.ret.ctx.cmd = last.ret.at
       /\ IsAttemptedPath(CmdPath(last.ret.ctx), last.ret.at, last.args)

\* [s=a]: the root's struct filter was bound but not called, and the handler got the
\* path that ends with the word that named no child
C13_Witness ==
    /\ NoActionFound
    /\ notFound
    /\ cmds[Root].filters = <<"struct">>
    /\ cmds[Root].subcommands # {}
    /\ last.args = << PlainWord >>
    /\ last.ret.trace = << Event("bind filter", Root, 1, "struct", NoObj),
                           Event("notFound", Root, 0, "func", NoObj) >>
    /\ CmdPath(last.ret.ctx) = << AppCmdName, PlainWord >>

\* the root binds a struct to the whole argument list: one of its filters or its
\* action is a struct (each is parsed from the list Exec was handed)
RootBinds ==
    \/ \E i \in 1..Len(cmds[Root].filters) : cmds[Root].filters[i] = "struct"
    \/ cmds[Root].action = "struct"

\* the scope matcher rejects the command at p
ScopeRejected(p, execScope) ==
    /\ scopeMatcher
    /\ cmds[p].action # "none"
    /\ cmds[p].scope # execScope

\* the list does not parse into the struct: here, the flag -s lacks its value
ParseFails(args) == BindAndParse["struct"][args].err # "none"

\* the struct parsed from the list breaks the rule the validator checks
ValidationFails(args) ==
    validator /\ ~ParseFails(args) /\ BindAndParse["struct"][args].vals["Run"] = Empty

\* C14: a dispatch-time failure comes back from Exec as a Status: a parse failure
\* of a struct filter or action as StatusParseFailed, a validator error as
\* StatusValidateFailed, an unmatched command without a not-found handler as
\* StatusNotFound naming the attempted command path, a scope-matcher error as
\* StatusMismatchScope; in each case no action and no filter's Filter is called.
C14_FailuresAreStatuses ==
    last.op = "Exec" =>
        /\ last.ret.status.code \in {0, StatusNotFound, StatusParseFailed,
                                      StatusValidateFailed, StatusMismatchScope}
        /\ last.ret.status.code # 0 => Called(last.ret) = <<>>
        /\ ScopeRejected(last.ret.at, last.execScope)
           => last.ret.status.code = StatusMismatchScope
        /\ (RootBinds /\ ~ScopeRejected(Root, last.execScope) /\ ParseFails(last.args))
           => (last.ret.status.code = StatusParseFailed /\ last.ret.at = Root)
        /\ (RootBinds /\ ~ScopeRejected(Root, last.execScope)
                      /\ ValidationFails(last.args))
           => (last.ret.status.code = StatusValidateFailed /\ last.ret.at = Root)
        /\ last.ret.status.code \in {StatusParseFailed, StatusValidateFailed}
           => /\ last.ret.trace # <<>>
              /\ last.ret.trace[Len(last.ret.trace)].ev \in {"bind filter", "bind action"}
              /\ last.ret.status.code = StatusValidateFailed => validator
        /\ (NoActionFound /\ ~notFound)
           => /\ last.ret.status.code = StatusNotFound
              /\ IsAttemptedPath(last.ret.status.cmdPath, last.ret.at, last.args)

\* -s without a value: the root's function filter and its struct action were not
\* called, the Status is StatusParseFailed
C14_Witness ==
    /\ last.op = "Exec"
    /\ last.args = << <<"-", "s">> >>
    /\ cmds[Root].filters = <<"func">>
    /\ cmds[Root].action = "struct"
    /\ last.ret.status.code = StatusParseFailed
    /\ last.ret.trace = << Event("bind action", Root, 0, "struct", NoObj) >>

----------------------------------------------------------------------------
(* C15 *)

\* what a FlagSet bound to an instance of its own reads from cmdline alone
IsoExpected ==
    [cmdline \in IsoArgLists |-> Parse(StructVars(NewFlagSet(TRUE), IsoT), cmdline).vals]

\* the instances an Exec call has bound
IsoObjs(e) == { execs[e].objs[i] : i \in DOMAIN execs[e].objs }

\* C15: every Exec binds instances of its own, which no other Exec and no
\* registration holds; the values its handlers read are those of its own
\* arguments, the declared default for a flag it was not given, however the
\* steps of the calls interleave; the instance a handler was registered with is
\* never written.
C15_ExecIsolation ==
    /\ \A e \in DOMAIN execs :
          /\ \A k \in Handlers : factories[k] \notin IsoObjs(e)
          /\ \A f \in DOMAIN execs : f # e => IsoObjs(e) \cap IsoObjs(f) = {}
          /\ \A i, j \in DOMAIN execs[e].objs : i # j => execs[e].objs[i] # execs[e].objs[j]
          /\ execs[e].pc = "done" =>
                \A i \in DOMAIN execs[e].seen : execs[e].seen[i] = IsoExpected[execs[e].args]
    /\ \A k \in Handlers : factories[k] # 0 => heap[factories[k]] = GivenObj

\* two calls with different arguments ran to their handlers, a struct filter
\* and a struct action bound in each, the second started before the first ended
C15_Witness ==
    /\ Len(execs) = 2
    /\ execs[1].pc = "done" /\ execs[2].pc = "done"
    /\ execs[1].args = <<>> /\ execs[2].args = << <<"-", "s">>, <<"a">> >>
    /\ Len(execs[1].seen) = 2 /\ Len(execs[2].seen) = 2
    /\ execs[1].objs[2] > execs[2].objs[1]

----------------------------------------------------------------------------
(* C16 *)

\* C16: while a registration call writes the subcommands, filters or action of
\* a command no other call reads those fields of that command, and a reader
\* holds a shared lock on every command whose fields it reads.
C16_ReaderWriterDiscipline ==
    /\ \A w, r \in Threads : \A c \in LockCmds :
          (w # r /\ Writes(w, c)) => ~Reads(r, c)
    /\ \A r \in Threads : \A c \in LockCmds :
          (threads[r].op \in Readers /\ Reads(r, c)) => r \in held[c].readers

\* the part of it the locks do give: a writer of c and an Exec called on c
\* itself never overlap
C16_SameCommandExcluded ==
    \A w, r \in Threads : \A c \in LockCmds :
        (Writes(w, c) /\ threads[r].op = "Exec") => threads[r].on # c

----------------------------------------------------------------------------
(* C17 *)

\* C17: with a scope matcher set, UsageText(scope) of the App or of a command
\* returns the text a computation over the tree as it is now gives, whatever
\* registration calls came before it.
C17_UsageCoherent ==
    last.op = "UsageText" =>
        last.ret = IF last.app
                   THEN AppUsage(FreshUsageText(cmds, Root, last.execScope))
                   ELSE FreshUsageText(cmds, last.path, last.execScope)

----------------------------------------------------------------------------
(* C18 *)

\* C18: in the Context a handler of an Exec is called with, ExecScope is the
\* execution scope handed to that Exec, 0 when none was, whatever the scope the
\* resolved command was registered with.
C18_ExecScopeIsExecutorScope ==
    (last.op = "Exec" /\ Called(last.ret) # <<>>) =>
        ExecScope(cmds, last.ret.ctx) = last.execScope

----------------------------------------------------------------------------
(* C19 *)

\* -h or -help stands at position i among the flags: the scan reaches i as a
\* flag position and every flag before it is defined
HelpAmongFlags(i) ==
    /\ arguments[i] \in HelpFlags
    /\ StrictReach(arguments, i)
    /\ \A j \in 1..(i - 1) : StrictReach(arguments, j) => NameOf(arguments[j]) \in DOMAIN formal

\* C19: Parse returns ErrHelp whenever -h or -help stands among the flags and is
\* not defined, in strict and in tolerant mode.
C19_HelpRequested ==
    (parsed /\ \E i \in 1..Len(arguments) :
                  HelpAmongFlags(i) /\ NameOf(arguments[i]) \notin DOMAIN formal)
        => perr = "flag: help requested"

\* the same of a strict FlagSet only
C19_StrictHelpRequested ==
    (parsed /\ ~isContinueOnUndefined
            /\ \E i \in 1..Len(arguments) :
                  HelpAmongFlags(i) /\ NameOf(arguments[i]) \notin DOMAIN formal)
        => perr = "flag: help requested"

----------------------------------------------------------------------------
(* C20 *)

\* the arguments after one leading command name, if there is one
AfterCommand(args) ==
    IF Len(args) > 0 /\ Len(args[1]) > 0 /\ ~BeginsDash(args[1]) THEN Tail(args) ELSE args

\* the positions of the flag name in the leading flag run
Occurrences(args, name) ==
    { i \in 1..Len(args) : InFlagRun(args, i) /\ WellFormed(args[i]) /\ NameOf(args[i]) = name }

\* the value the flag at position i is given: what follows its '=', or the next
\* token when that does not begin with '-', or nothing
ValueAt(args, i) ==
    IF HasEq(args[i]) THEN Drop(Stripped(args[i]), Len(NameOf(args[i])) + 1)
    ELSE IF TokWidth(args, i) = 2 THEN args[i + 1]
    ELSE Empty

\* C20: LookupArgs(args, name) is (v, true) exactly when the flag name occurs in
\* the leading flag run of args, after one optional leading command name, v being
\* the value of its first occurrence, given as -name=v or -name v, and "" when it
\* has none; it is ("", false) otherwise.
C20_LookupArgs ==
    look.called =>
        LET args == AfterCommand(look.args)
            occ == Occurrences(args, look.name)
        IN  IF occ = {}
            THEN look.ret = [value |-> Empty, found |-> FALSE]
            ELSE look.ret = [value |-> ValueAt(args, CHOOSE i \in occ : \A j \in occ : i <= j),
                             found |-> TRUE]

\* the name was found behind a command name and another flag with its value,
\* with a value of its own
C20_Witness ==
    /\ look.called
    /\ look.args = << <<"a">>, <<"-", "y">>, <<"0">>, <<"-", "v", "=", "0">> >>
    /\ look.name = <<"v">>
    /\ look.ret = [value |-> <<"0">>, found |-> TRUE]

----------------------------------------------------------------------------
(* C21 *)

\* the groups of an argument list: what lies between its "--" tokens
RECURSIVE Groups(_)
Groups(args) ==
    LET ends == { i \in 1..Len(args) : args[i] = DashDash } IN
    IF ends = {} THEN <<args>>
    ELSE LET k == CHOOSE i \in ends : \A j \in ends : i <= j
         IN  <<Take(args, k - 1)>> \o Groups(Drop(args, k))

\* the command name of a group, empty when it has none
GroupCommand(g) == IF Len(g) > 0 /\ Len(g[1]) > 0 /\ ~BeginsDash(g[1]) THEN g[1] ELSE Empty

\* a group is an optional command name followed by well-formed flags, each with
\* its value or without
WellFormedGroup(g) ==
    LET f == AfterCommand(g) IN \A i \in 1..Len(f) : InFlagRun(f, i) => WellFormed(f[i])

\* the Options of a group: one for every flag named name, in order
GroupOptions(g, name) ==
    LET f == AfterCommand(g)
        at == SelectSeq([i \in 1..Len(f) |-> i],
                        LAMBDA i : InFlagRun(f, i) /\ NameOf(f[i]) = name)
    IN  [k \in 1..Len(at) |-> Option(GroupCommand(g), name, ValueAt(f, at[k]))]

RECURSIVE AllOptions(_, _)
AllOptions(gs, name) ==
    IF gs = <<>> THEN <<>> ELSE GroupOptions(Head(gs), name) \o AllOptions(Tail(gs), name)

Grouped(args) == \A k \in 1..Len(Groups(args)) : WellFormedGroup(Groups(args)[k])

\* C21: for an argument list of groups separated by "--", each an optional
\* command name followed by well-formed flags, LookupOptions returns one Option
\* for every occurrence of the flag name, in argument order, with the command
\* name of its group and the value of the flag, empty when it has none, and none
\* for another flag.
C21_LookupOptions ==
    (look.pc = "done" /\ look.name # Empty /\ Grouped(look.args))
        => look.r = AllOptions(Groups(look.args), look.name)

\* an occurrence without a command and without a value, then one in the group of
\* command a with the value a
C21_Witness ==
    /\ look.pc = "done"
    /\ look.args = << <<"-", "s">>, DashDash, <<"a">>, <<"-", "s", "=", "a">> >>
    /\ look.r = << Option(Empty, <<"s">>, Empty), Option(<<"a">>, <<"s">>, <<"a">>) >>

----------------------------------------------------------------------------
(* C29 *)

\* C29: every turn of the loop of LookupOptions leaves fewer arguments than it
\* found or ends the loop, whatever the next token is.
C29_TurnsShorten ==
    [][look'.pc = "done" \/ Len(look'.arguments) < Len(look.arguments)]_look

----------------------------------------------------------------------------
(* C22 *)

\* the arguments carry global options and a subcommand, and a handler is set for
\* both
GlobalAndCommand(cmdName) ==
    /\ last.op = "Exec"
    /\ pickCommandAndOptions(last.args).err = "none"
    /\ DOMAIN pickCommandAndOptions(last.args).r = {Empty, cmdName}
    /\ cmdName # Empty
    /\ {Empty, cmdName} \subseteq DOMAIN actions

\* C22: when the arguments of an Exec of the action-map App carry global options
\* and a subcommand, the handlers called are the middlewares' starts, the handler
\* of the global options, the handler of the subcommand, the middlewares' ends,
\* in this order.
C22_GlobalBeforeCommand ==
    \A cmdName \in Names :
        (GlobalAndCommand(cmdName) /\ last.ret.status.code = 0) =>
            last.ret.trace =
                withMiddlewares(middlewares,
                    [status |-> NoStatus,
                     trace |-> << MapEvent("Handle", Empty, 0),
                                  MapEvent("Handle", cmdName, 0) >>]).trace

----------------------------------------------------------------------------
(* C23 *)

\* args without the flags of its leading flag run that are not registered, and
\* without the value tokens these took
RECURSIVE DeleteUnregistered(_, _)
DeleteUnregistered(args, names) ==
    IF args = <<>> THEN <<>>
    ELSE IF ~WellFormed(args[1]) THEN args
    ELSE LET width == TokWidth(args, 1) IN
         IF NameOf(args[1]) \in names
         THEN Take(args, width) \o DeleteUnregistered(Drop(args, width), names)
         ELSE DeleteUnregistered(Drop(args, width), names)

\* the FlagSet as it was before Parse, in strict mode
StrictTwin ==
    IF structT = "none" THEN NewFlagSet(FALSE)
    ELSE StructVars(NewFlagSet(FALSE), StructTypes[structT])

\* C23: a tolerant Parse gives every field the value, and leaves the positional
\* arguments, that a strict Parse gives on the list without the unregistered
\* flags and the value tokens they took, a registered boolean flag written
\* -name=value included (stated for the calls in which neither returns an error).
C23_TolerantRefinesStrict ==
    (parsed /\ isContinueOnUndefined /\ perr = "none") =>
        LET strict == Parse(StrictTwin, DeleteUnregistered(arguments, DOMAIN formal))
        IN  strict.err = "none" => (vals = strict.vals /\ fargs = strict.fargs)

----------------------------------------------------------------------------
(* C24 *)

\* the tokens the first flag of args is re-synthesized as, and how many tokens
\* of args it takes: -x=v, -x with the next token as its value, -x without value
FirstFlag(args) ==
    LET name == NameOf(args[1]) IN
    IF HasEq(args[1])
    THEN [tokens |-> << <<"-">> \o name, Drop(Stripped(args[1]), Len(name) + 1) >>, width |-> 1]
    ELSE IF Len(args) >= 2 /\ (args[2] = Empty \/ args[2][1] # "-")
    THEN [tokens |-> << <<"-">> \o name, args[2] >>, width |-> 2]
    ELSE [tokens |-> << <<"-">> \o name >>, width |-> 1]

\* C24: one step of the tokenizer takes -x=v as x with the value v, empty for
\* -x=; -x followed by a token that is empty or does not start with '-' as x with
\* that token as value, which it consumes; -x at the end or before a token
\* starting with '-' as x with no value, consuming nothing more.  A flag without
\* value is re-synthesized as the token -x, a flag with a value as -x, value.
C24_ValueForms ==
    (Len(tidyOut) > 0 /\ Len(tidyIn) > 0 /\ WellFormed(tidyIn[1])) =>
        LET first == FirstFlag(tidyIn)
            rest == tidyArgs(Drop(tidyIn, first.width), FilterAll)
        IN  /\ tidyOut[1].tidiedArgs = first.tokens \o rest.tidiedArgs
            /\ tidyOut[1].lastArgs = rest.lastArgs
            /\ tidyOut[1].err = rest.err

\* -s= -s "" -s : an empty value after '=', an empty token as value, no value
C24_Witness ==
    /\ tidyIn = << <<"-", "s", "=">>, <<"-", "s">>, Empty, <<"-", "s">> >>
    /\ Len(tidyOut) > 0
    /\ tidyOut[1].tidiedArgs = << <<"-", "s">>, Empty, <<"-", "s">>, Empty, <<"-", "s">> >>
    /\ tidyOut[1].err = "none"

----------------------------------------------------------------------------
(* C25 *)

\* a FlagSet bound to the struct of kind k after Parse of cmdline
ParsedAlone(k, cmdline) == Parse(StructVars(NewFlagSet(TRUE), KindType[k]), cmdline)

\* the incoming list and what every struct filter leaves of it
Leftovers(fl, cmdline) ==
    {cmdline} \cup { NextArgs(ParsedAlone(fl[i], cmdline)) :
                        i \in { j \in 1..Len(fl) : fl[j] \in StructKinds } }

\* C25: every struct filter of a command parses the whole list that reaches the
\* command, and the arguments handed on are the shortest among that list and
\* the NextArgs of the struct filters; a function filter changes nothing of it.
C25_ShortestLeftover ==
    (last.op = "newFilters" /\ ~last.ret.thrown) =>
        /\ last.ret.args \in Leftovers(last.filters, last.args)
        /\ \A l \in Leftovers(last.filters, last.args) : Len(last.ret.args) <= Len(l)
        /\ Len(last.ret.r) = Len(last.filters)
        /\ \A i \in 1..Len(last.filters) :
              last.ret.r[i].obj = IF last.filters[i] \in StructKinds
                                  THEN ParsedAlone(last.filters[i], last.args).vals
                                  ELSE NoObj

\* a struct with the slot ?0 before a struct without: both bound from -s a, the
\* second one's leftover the longer
C25_Witness ==
    /\ last.op = "newFilters"
    /\ last.filters = <<"slot", "struct">>
    /\ last.args = << <<"a">>, PlainWord >>
    /\ ~last.ret.thrown
    /\ last.ret.args = << PlainWord >>
    /\ NextArgs(ParsedAlone("struct", last.args)) = last.args

----------------------------------------------------------------------------
(* C26 *)

\* the errors parseOneNonFlag returns
NonFlagErrors == {"non-flag defined but not provided", "invalid value for non-flag"}

\* the index the loop over the positional arguments stopped at: the first one
\* parseOneNonFlag did not report as seen
StoppedAt == CHOOSE k \in 0..Len(fargs) : k \notin nonActual /\ \A j \in 0..(k - 1) : j \in nonActual

\* C26: Parse returns no error because of a positional argument whose index has
\* no declared slot, whatever its text, a -- after the first positional included.
C26_UndeclaredIndexNoError ==
    (parsed /\ perr \in NonFlagErrors) => StoppedAt \in DOMAIN nonFormal

----------------------------------------------------------------------------
(* Command.FindActionCommands: command.go:174-198, 388-406 *)

\* commandList.Less (command.go:529-531): PathString() of p before that of q; the
\* names are single letters, so a path sorts before the paths below it
RECURSIVE PathLess(_, _)
PathLess(p, q) ==
    IF p = <<>> THEN q # <<>>
    ELSE IF q = <<>> THEN FALSE
    ELSE IF p[1] # q[1] THEN p[1] = "a" /\ q[1] = "b"
    ELSE PathLess(Tail(p), Tail(q))

\* the names as the strings Less compares
PathString(p) == [i \in 1..Len(p) |-> p[i][1]]

\* cmdsDistinctAndSort (command.go:187-198): every command once, sorted
RECURSIVE cmdsDistinctAndSort(_)
cmdsDistinctAndSort(set) ==
    IF set = {} THEN <<>>
    ELSE LET first == CHOOSE p \in set :
                        \A q \in set \ {p} : PathLess(PathString(p), PathString(q))
         IN  <<first>> \o cmdsDistinctAndSort(set \ {first})

\* the keys of c.scopeCommandMap
scopeKeys(cs, c) == { s \in Scopes : scopeCommandMap(cs, c, s) # {} }

\* c.scopeCommands as bubbleSetScopeCmd builds it (command.go:181)
scopeCommands(cs, c) == cmdsDistinctAndSort(UNION { scopeCommandMap(cs, c, s) : s \in Scopes })

\* the loop "for s, sc := range c.scopeCommandMap" in the order o of its keys
RECURSIVE appendMatched(_, _, _, _, _)
appendMatched(cs, c, execScope, o, i) ==
    IF i > Len(o) THEN <<>>
    ELSE (IF scopeMatcherFunc(o[i], execScope) = "nil"
          THEN cmdsDistinctAndSort(scopeCommandMap(cs, c, o[i]))
          ELSE <<>>) \o appendMatched(cs, c, execScope, o, i + 1)

\* c.FindActionCommands() and c.FindActionCommands(execScope)
FindActionCommands(cs, app, c, scoped, execScope, o) ==
    IF ~app.scopeMatcher \/ ~scoped THEN scopeCommands(cs, c)
    ELSE appendMatched(cs, c, execScope, o, 1)

\* list := c.FindActionCommands(execScope...)
DoFindActionCommands(c, scoped, execScope) ==
    /\ \E o \in RangeOrders(scopeKeys(cmds, c)) :
          last' = [op |-> "FindActionCommands", path |-> c, scoped |-> scoped,
                   execScope |-> execScope,
                   ret |-> FindActionCommands(cmds, TheApp, c, scoped, execScope, o)]
    /\ UNCHANGED <<cmds, notFound, scopeMatcher, validator, pending, actions, middlewares>>

\* the tree is built, the scope matcher set or not, and the list is asked for
NextFind ==
    \/ last.op # "FindActionCommands" /\ Running
          /\ \E p \in DOMAIN cmds, n \in Names : DoAddSubcommand(p, n, <<>>, TRUE)
    \/ last.op # "FindActionCommands" /\ Running
          /\ \E p \in DOMAIN cmds, a \in Kinds, s \in Scopes : DoSetAction(p, a, s, TRUE)
    \/ last.op # "FindActionCommands" /\ Running /\ DoSetScopeMatcher
    \/ last.op # "FindActionCommands" /\ Running
          /\ \E c \in DOMAIN cmds, scoped \in BOOLEAN, s \in Scopes :
                DoFindActionCommands(c, scoped, IF scoped THEN s ELSE 0)

FindInit == InitExec /\ InitFlagSetIdle /\ InitTidyIdle /\ InitRestIdle

FindNext == NextFind /\ UNCHANGED <<fsVars, tidyVars, restVars>>

SpecFind == FindInit /\ [][FindNext]_vars

----------------------------------------------------------------------------
(* C27 *)

\* the commands of the subtree of c that have an action
ActionCommands(cs, c) == { q \in DOMAIN cs : IsPrefix(c, q) /\ cs[q].action # "none" }

\* the set of the commands of a list
ListSet(l) == { l[i] : i \in 1..Len(l) }

\* C27: FindActionCommands() returns the commands of the subtree that have an
\* action, each once, sorted by path; with a scope matcher and an executor scope,
\* those of them whose scope the matcher accepts; never a command without action.
C27_OnlyActionCommands ==
    last.op = "FindActionCommands" =>
        IF scopeMatcher /\ last.scoped
        THEN /\ ListSet(last.ret) =
                  { q \in ActionCommands(cmds, last.path) :
                       scopeMatcherFunc(cmds[q].scope, last.execScope) = "nil" }
             /\ Len(last.ret) = Cardinality(ListSet(last.ret))
        ELSE last.ret = cmdsDistinctAndSort(ActionCommands(cmds, last.path))

----------------------------------------------------------------------------
(* The usage caches by executor scope and their locks: execScopeUsageTexts  *)
(* and execScopeUsageTextsLock of the App (part_008:31-32) and of every     *)
(* Command (command.go:29-30).  The goroutines call UsageText(scope) and    *)
(* SetAction on one tree; between two steps of a call any other call may    *)
(* take a step.  One executor scope is asked for.                           *)

\* the tree: the root command and its subcommands a and b
CacheTree ==
    AddSubcommand(AddSubcommand((Root :> newCommand), Root, <<"a">>, <<>>).cmds,
                  Root, <<"b">>, <<>>).cmds

\* the caches: the App's and every command's
AppCache == [of |-> "app", path |-> Root]
CacheOf(p) == [of |-> "cmd", path |-> p]
Caches == {AppCache} \cup { CacheOf(p) : p \in DOMAIN CacheTree }

CacheIdle == [op |-> "idle", pc |-> "idle", on |-> AppCache, cmd |-> Root, todo |-> <<>>]

InitCache ==
    /\ cmds = CacheTree
    /\ notFound = FALSE
    /\ scopeMatcher = TRUE
    /\ validator = FALSE
    /\ pending = <<>>
    /\ actions = <<>>
    /\ middlewares = 0
    /\ last = NoCall
    /\ held = [cache |-> [k \in Caches |-> Unlocked], lock |-> [k \in Caches |-> Unlocked]]
    /\ threads = [t \in Threads |-> CacheIdle]
    /\ execScopeUsageTexts = [k \in Caches |-> FALSE]

\* the goroutine looks the scope up in the map of cache k
Looks(t, k) == threads[t].pc = "lookup" /\ threads[t].on = k
\* the goroutine stores into the map of cache k, or replaces the map
Stores(t, k) == threads[t].pc \in {"insert", "replace"} /\ threads[t].on = k

\* App.UsageText(scope): a.lock.RLock() (part_008:292)
AppUsageRLock(t) ==
    /\ threads[t].op = "idle"
    /\ held.lock[AppCache].writer = 0
    /\ held' = [held EXCEPT !.lock[AppCache].readers = @ \cup {t}]
    /\ threads' = [threads EXCEPT ![t] = [CacheIdle EXCEPT !.op = "App.UsageText", !.pc = "rlocked"]]
    /\ UNCHANGED <<cmds, execScopeUsageTexts>>

\* execScopeUsageTextsLock.RLock() and the lookup (part_008:299-300,
\* command.go:435-436); Command.UsageText takes no other lock before
CacheRLock(t, p) ==
    /\ \/ threads[t].op = "App.UsageText" /\ threads[t].pc = "rlocked" /\ p = Root
       \/ threads[t].op = "idle"
    /\ LET k == IF threads[t].op = "idle" THEN CacheOf(p) ELSE AppCache IN
       /\ held.cache[k].writer = 0
       /\ held' = [held EXCEPT !.cache[k].readers = @ \cup {t}]
       /\ threads' = [threads EXCEPT ![t] =
                        [op |-> IF threads[t].op = "idle" THEN "Command.UsageText" ELSE @.op,
                         pc |-> "lookup", on |-> k, cmd |-> p, todo |-> <<>>]]
    /\ UNCHANGED <<cmds, execScopeUsageTexts>>

\* execScopeUsageTextsLock.RUnlock(), with txt, ok of the lookup
CacheRUnlock(t) ==
    /\ threads[t].pc = "lookup"
    /\ held' = [held EXCEPT !.cache[threads[t].on].readers = @ \ {t}]
    /\ threads' = [threads EXCEPT ![t].pc =
                     IF execScopeUsageTexts[threads[t].on] THEN "hit" ELSE "miss"]
    /\ UNCHANGED <<cmds, execScopeUsageTexts>>

\* App.UsageText after a miss: createUsageLocked and the store, no lock of the
\* cache taken (part_008:305-309)
AppInsert(t) ==
    /\ threads[t].op = "App.UsageText"
    /\ threads[t].pc = "miss"
    /\ threads' = [threads EXCEPT ![t].pc = "insert"]
    /\ UNCHANGED <<cmds, held, execScopeUsageTexts>>

\* Command.UsageText after a miss: execScopeUsageTextsLock.Lock(), the second
\* lookup and the store (command.go:441-459)
CmdCacheLock(t) ==
    /\ threads[t].op = "Command.UsageText"
    /\ threads[t].pc = "miss"
    /\ held.cache[threads[t].on].writer = 0 /\ held.cache[threads[t].on].readers = {}
    /\ held' = [held EXCEPT !.cache[threads[t].on].writer = t]
    /\ threads' = [threads EXCEPT ![t].pc = "insert"]
    /\ UNCHANGED <<cmds, execScopeUsageTexts>>

\* execScopeUsageTexts[scope] = txt
Inserted(t) ==
    /\ threads[t].pc = "insert"
    /\ execScopeUsageTexts' = [execScopeUsageTexts EXCEPT ![threads[t].on] = TRUE]
    /\ threads' = [threads EXCEPT ![t].pc = "hit"]
    /\ UNCHANGED <<cmds, held>>

\* return txt, with the deferred Unlock and RUnlock
UsageReturn(t) ==
    /\ threads[t].pc = "hit"
    /\ held' = IF threads[t].op = "App.UsageText"
               THEN [held EXCEPT !.lock[AppCache].readers = @ \ {t}]
               ELSE IF held.cache[threads[t].on].writer = t
               THEN [held EXCEPT !.cache[threads[t].on].writer = 0]
               ELSE held
    /\ threads' = [threads EXCEPT ![t] = CacheIdle]
    /\ UNCHANGED <<cmds, execScopeUsageTexts>>

\* c.SetAction(action): c.lock.Lock(), the checks and c.action = &obj
\* (command.go:133-165); then the maps of the App, of c and of its parents are
\* replaced, in this order (command.go:169-170, 175, 183)
SetActionLock(t, p) ==
    /\ threads[t].op = "idle"
    /\ held.lock[CacheOf(p)].writer = 0 /\ held.lock[CacheOf(p)].readers = {}
    /\ SetAction(cmds, p, "func", 0).ret = "ok"
    /\ cmds' = SetAction(cmds, p, "func", 0).cmds
    /\ held' = [held EXCEPT !.lock[CacheOf(p)].writer = t]
    /\ threads' = [threads EXCEPT ![t] =
                     [op |-> "SetAction", pc |-> "replace", on |-> AppCache, cmd |-> p,
                      todo |-> [i \in 1..(Len(p) + 1) |-> CacheOf(Take(p, Len(p) + 1 - i))]]]
    /\ UNCHANGED execScopeUsageTexts

\* execScopeUsageTexts = make(map[Scope]string, ...)
Replaced(t) ==
    /\ threads[t].pc = "replace"
    /\ execScopeUsageTexts' = [execScopeUsageTexts EXCEPT ![threads[t].on] = FALSE]
    /\ threads' = IF threads[t].todo = <<>>
                  THEN [threads EXCEPT ![t].pc = "replaced"]
                  ELSE [threads EXCEPT ![t].on = Head(threads[t].todo),
                                       ![t].todo = Tail(threads[t].todo)]
    /\ UNCHANGED <<cmds, held>>

\* c.app.updateUsageLocked() and the deferred c.lock.Unlock()
SetActionUnlock(t) ==
    /\ threads[t].pc = "replaced"
    /\ held' = [held EXCEPT !.lock[CacheOf(threads[t].cmd)].writer = 0]
    /\ threads' = [threads EXCEPT ![t] = CacheIdle]
    /\ UNCHANGED <<cmds, execScopeUsageTexts>>

NextCache ==
    \/ \E t \in Threads : AppUsageRLock(t)
    \/ \E t \in Threads, p \in DOMAIN cmds : CacheRLock(t, p)
    \/ \E t \in Threads : CacheRUnlock(t)
    \/ \E t \in Threads : AppInsert(t)
    \/ \E t \in Threads : CmdCacheLock(t)
    \/ \E t \in Threads : Inserted(t)
    \/ \E t \in Threads : UsageReturn(t)
    \/ \E t \in Threads, p \in DOMAIN cmds : SetActionLock(t, p)
    \/ \E t \in Threads : Replaced(t)
    \/ \E t \in Threads : SetActionUnlock(t)

CacheInit ==
    /\ InitCache
    /\ InitFlagSetIdle /\ InitTidyIdle /\ InitIsoIdle /\ InitLookIdle /\ InitTextIdle

CacheNext ==
    /\ NextCache
    /\ UNCHANGED <<fsVars, tidyVars, isoVars, look, usageText>>
    /\ UNCHANGED <<notFound, scopeMatcher, validator, pending, actions, middlewares, last>>

SpecCache == CacheInit /\ [][CacheNext]_vars

----------------------------------------------------------------------------
(* C28 *)

\* C28: every access to a usage cache map is made under that cache's own lock,
\* shared for a lookup and exclusive for a store or a replacement, so that no
\* two calls store into one map, or look up and store into it, at once.
C28_CacheUnderItsLock ==
    /\ \A t \in Threads, k \in Caches :
          Looks(t, k) => (t \in held.cache[k].readers \/ held.cache[k].writer = t)
    /\ \A t \in Threads, k \in Caches :
          Stores(t, k) => held.cache[k].writer = t
    /\ \A t, u \in Threads, k \in Caches :
          (t # u /\ Stores(t, k)) => ~(Looks(u, k) \/ Stores(u, k))

\* the part of it Command.UsageText keeps by itself: two calls of it never
\* store into, or look up and store into, the map of one command at once
C28_CommandUsageTextExcluded ==
    \A t, u \in Threads, k \in Caches :
        (t # u /\ threads[t].op = "Command.UsageText" /\ threads[u].op = "Command.UsageText"
             /\ Stores(t, k))
        => ~(Looks(u, k) \/ Stores(u, k))

----------------------------------------------------------------------------
(* The usage texts without scope: the usageText fields, which               *)
(* updateUsageLocked rebuilds (command.go:463-471, part_008:330-355) and    *)
(* UsageText() returns (command.go:430-433, part_008:294-297)               *)

\* Command.updateUsageLocked on c: c.usageText after the call
RECURSIVE updateUsageLocked(_, _)
RECURSIVE updateUsageOfSubcommands(_, _, _)
updateUsageOfSubcommands(cs, c, names) ==
    IF names = <<>> THEN <<>>
    ELSE updateUsageLocked(cs, Append(c, Head(names)))
         \o updateUsageOfSubcommands(cs, c, Tail(names))

updateUsageLocked(cs, c) ==
    <<newUsageLocked(cs, c)>> \o updateUsageOfSubcommands(cs, c, SortedNames(cs[c].subcommands))

\* App.updateUsageLocked: the usageText of every command the walk from the root
\* reaches, and the App's template around the root's
AppUpdateUsageLocked(cs) ==
    [app |-> AppUsage(updateUsageLocked(cs, Root)),
     cmd |-> [c \in DOMAIN cs |-> updateUsageLocked(cs, c)]]

\* AddSubcommand (command.go:84-89): subCmd.AddFilter(filters...) rebuilds the
\* texts from the root, which does not reach subCmd yet; then
\* c.subcommands[cmdName] = subCmd.  The new command's usageText is as newCommand
\* left it.
TextAfterAddSubcommand(cs, texts, c, cmdName, filters) ==
    LET r == AddSubcommand(cs, c, cmdName, filters) IN
    IF r.ret # "ok" THEN texts
    ELSE [app |-> AppUpdateUsageLocked(cs).app,
          cmd |-> Extend(AppUpdateUsageLocked(cs).cmd, Append(c, cmdName), <<>>)]

\* NewApp() (part_008:108-117): the setters it calls rebuild the texts
InitText ==
    /\ cmds = (Root :> newCommand)
    /\ notFound = FALSE
    /\ scopeMatcher = FALSE
    /\ validator = FALSE
    /\ pending = <<>>
    /\ actions = <<>>
    /\ middlewares = 0
    /\ last = NoCall
    /\ usageText = AppUpdateUsageLocked((Root :> newCommand))

\* c.AddSubcommand(cmdName, "", filters...)
TextAddSubcommand(c, cmdName, filters) ==
    /\ DoAddSubcommand(c, cmdName, filters, TRUE)
    /\ usageText' = TextAfterAddSubcommand(cmds, usageText, c, cmdName, filters)

\* c.AddFilter(filter), which ends with c.app.updateUsageLocked() (command.go:125)
TextAddFilter(c, filter) ==
    /\ DoAddFilter(c, filter, TRUE)
    /\ usageText' = AppUpdateUsageLocked(AddFilter(cmds, c, <<filter>>).cmds)

\* c.SetAction(action, scope), which ends with c.app.updateUsageLocked()
\* (command.go:171) unless it panics
TextSetAction(c, action, scope) ==
    /\ DoSetAction(c, action, scope, TRUE)
    /\ usageText' = IF SetAction(cmds, c, action, scope).ret = "ok"
                    THEN AppUpdateUsageLocked(SetAction(cmds, c, action, scope).cmds)
                    ELSE usageText

NextText ==
    \/ Running /\ \E c \in DOMAIN cmds, n \in Names, fl \in FilterLists : TextAddSubcommand(c, n, fl)
    \/ Running /\ \E c \in DOMAIN cmds, k \in Kinds : TextAddFilter(c, k)
    \/ Running /\ \E c \in DOMAIN cmds, a \in Kinds, s \in Scopes : TextSetAction(c, a, s)

TextInit ==
    /\ InitText
    /\ InitFlagSetIdle /\ InitTidyIdle
    /\ InitIsoIdle /\ InitLockIdle /\ InitUsageIdle /\ InitLookIdle

TextNext == NextText /\ UNCHANGED <<fsVars, tidyVars, isoVars, lockVars, execScopeUsageTexts, look>>

SpecText == TextInit /\ [][TextNext]_vars

----------------------------------------------------------------------------
(* C30 *)

\* the text has a block for the command q; the text of the App is the block of
\* its template and then the text of the root command
Covers(text, q) == \E i \in 1..Len(text) : text[i].path = q

\* C30: after any sequence of registrations App.UsageText() and
\* Command.UsageText() cover every command of the tree below, whichever call
\* came last; a subcommand is listed as soon as AddSubcommand has returned.
C30_UsageCoversTree ==
    /\ \A q \in DOMAIN cmds : Covers(Tail(usageText.app), q)
    /\ \A c \in DOMAIN cmds : \A q \in DOMAIN cmds :
          IsPrefix(c, q) => Covers(usageText.cmd[c], q)

====
